---- MODULE Spec2Model ----
(***************************************************************************)
(* Model of the OmniQ Node client (not-empty/omniq-node): the consumer     *)
(* runloop of src/src/consumer.ts with its per-job heartbeater and signal  *)
(* handlers, driving the operations layer of src/unnamed/part_009 (ops.ts).*)
(*                                                                         *)
(* One action is one run of JavaScript from the resumption of an await (or *)
(* the firing of a timer or signal) to the next suspension, which is the   *)
(* granularity at which the single-threaded event loop interleaves tasks.  *)
(* Wall-clock time is abstracted to "this timer has become due".           *)
(***************************************************************************)
EXTENDS Integers, Sequences, FiniteSets, TLC

\* ------------------------------------------------------------------ bounds
MaxJobs    == 2   \* jobs the runloop takes in hand during one consume call
MaxTicks   == 1   \* heartbeats of interval ticks of one job in flight at once
MaxSigints == 2   \* interrupt signals delivered
MaxHbCalls == 3   \* heartbeat calls issued by the heartbeater taken alone
MaxStops   == 2   \* stop() calls on the heartbeater taken alone
MaxProcs   == 3   \* concurrent callers of the operations layer
MaxExpected == 3  \* largest expected count given to childs_init
MaxChildCalls == 5 \* child_ack calls made on the counter
MaxStoreJobs == 1 \* jobs published to the queue of the store
MaxLeases  == 2   \* reservations the store grants
MaxNow     == 2   \* ticks of the store's clock
MaxTimeoutSteps == 130 \* timeouts handed over, in quarters of a second
MaxPollSteps == 40 \* poll intervals handed over, in steps of 5 ms
MaxHandlerCalls == 2 \* methods one handler calls
MaxReserveFails == 2 \* reserves of the runloop that fail in a row

ExitStatus == 130 \* process.exit(130)

JobIds == 1..MaxJobs

\* ----------------------------------------------------- store replies (raw)
\* A settled transport call: either a reply (an array of elements, or a
\* non-array value) or a thrown error with a message.  Messages are
\* sequences of words; String.includes is membership of a word.
\* An integer element of a reply is written "#" in elems and carried in num.
ArrN(e, n) == [kind |-> "reply", isArray |-> TRUE,  elems |-> e, num |-> n]
Arr(e)     == ArrN(e, [hi |-> 0, lo |-> 0])
NonArr     == [kind |-> "reply", isArray |-> FALSE, elems |-> <<"null">>,
               num |-> [hi |-> 0, lo |-> 0]]
Err(m)     == [kind |-> "error", isArray |-> FALSE, elems |-> m,
               num |-> [hi |-> 0, lo |-> 0]]

Includes(msg, word) == \E i \in DOMAIN msg : msg[i] = word

Thrown(m)  == [ok |-> FALSE, msg |-> m, val |-> <<>>]
Returned(v) == [ok |-> TRUE, msg |-> <<>>, val |-> v]

\* A number of a reply, hi * 2^16 + lo with 0 <= lo < 2^16: epoch
\* milliseconds need more than 32 bits.
Num(h, l) == [hi |-> h, lo |-> l]

\* Number(x) | 0 : the low 32 bits, read as a signed integer
ToInt32(n) ==
  LET h == n.hi % 65536
  IN IF h >= 32768 THEN (h - 65536) * 65536 + n.lo ELSE h * 65536 + n.lo

\* OmniqOps.heartbeat, from the settled script call to its result
OpsHeartbeat(raw) ==
  IF raw.kind = "error" THEN Thrown(raw.elems)
  ELSE IF ~raw.isArray \/ Len(raw.elems) < 1
       THEN Thrown(<<"Unexpected HEARTBEAT response:">> \o raw.elems)
  ELSE IF raw.elems[1] = "OK"
       THEN Returned(<<IF Len(raw.elems) > 1 THEN ToInt32(raw.num) ELSE 0>>)
  ELSE IF raw.elems[1] = "ERR"
       THEN Thrown(<<"HEARTBEAT failed:",
                     IF Len(raw.elems) > 1 THEN raw.elems[2] ELSE "UNKNOWN">>)
  ELSE Thrown(<<"Unexpected HEARTBEAT response:">> \o raw.elems)

\* the settled script calls a heartbeat can meet
HbRaws ==
  { ArrN(<<"OK", "#">>, Num(25940255, 5000)),
    Arr(<<"ERR", "NOT_ACTIVE">>),
    Arr(<<"ERR", "TOKEN_MISMATCH">>),
    Arr(<<"ERR", "BAD_STATE">>),
    Arr(<<"NOT_ACTIVE">>),
    NonArr,
    Err(<<"ECONNRESET">>) }

\* variant: a PAUSED reply is read as an empty queue
OpsReserve_PausedIsEmpty(raw) ==
  IF raw.kind = "error" THEN Thrown(raw.elems)
  ELSE IF ~raw.isArray \/ Len(raw.elems) < 1
       THEN Thrown(<<"Unexpected RESERVE response:">> \o raw.elems)
  ELSE IF raw.elems[1] \in {"EMPTY", "PAUSED"} THEN Returned(<<"null">>)
  ELSE IF raw.elems[1] /= "JOB" \/ Len(raw.elems) < 7
       THEN Thrown(<<"Unexpected RESERVE response:">> \o raw.elems)
  ELSE Returned(<<"JOB", raw.elems[7], raw.elems[2], raw.elems[5]>>)

\* OmniqOps.reserve, from the settled script call to its result
OpsReserve(raw) ==
  IF raw.kind = "error" THEN Thrown(raw.elems)
  ELSE IF ~raw.isArray \/ Len(raw.elems) < 1
       THEN Thrown(<<"Unexpected RESERVE response:">> \o raw.elems)
  ELSE IF raw.elems[1] = "EMPTY"  THEN Returned(<<"null">>)
  ELSE IF raw.elems[1] = "PAUSED" THEN Returned(<<"PAUSED">>)
  ELSE IF raw.elems[1] /= "JOB" \/ Len(raw.elems) < 7
       THEN Thrown(<<"Unexpected RESERVE response:">> \o raw.elems)
  ELSE Returned(<<"JOB", raw.elems[7], raw.elems[2], raw.elems[5]>>)

ReserveRaws ==
  { Arr(<<"EMPTY">>),
    Arr(<<"PAUSED">>),
    Arr(<<"JOB", "j", "{}", "5000", "0", "", "tok">>),
    Arr(<<"JOB", "k", "{}", "5000", "1", "g", "tok2">>),
    Arr(<<"JOB", "j", "{}", "5000", "0", "", "">>),
    Arr(<<"JOB", "j">>),
    Arr(<<"WAT">>),
    Arr(<<>>),
    NonArr,
    Err(<<"ECONNRESET">>) }

\* OmniqOps.promote_delayed / reap_expired: ["OK", n] or an error
OpsCount(raw) ==
  IF raw.kind = "error" THEN Thrown(raw.elems)
  ELSE IF ~raw.isArray \/ Len(raw.elems) < 2 \/ raw.elems[1] /= "OK"
       THEN Thrown(<<"Unexpected response:">>)
  ELSE Returned(<<ToInt32(raw.num)>>)

CountRaws == { ArrN(<<"OK", "#">>, Num(0, 1)), Arr(<<"ERR", "X">>), Err(<<"ECONNRESET">>) }

\* variant: ack_success takes an ERR reply for a success
OpsAckSuccess_ErrIsOk(raw) ==
  IF raw.kind = "error" THEN Thrown(raw.elems)
  ELSE IF ~raw.isArray \/ Len(raw.elems) < 1
       THEN Thrown(<<"Unexpected ACK_SUCCESS response:">> \o raw.elems)
  ELSE Returned(<<"OK">>)

\* OmniqOps.ack_success
OpsAckSuccess(raw) ==
  IF raw.kind = "error" THEN Thrown(raw.elems)
  ELSE IF ~raw.isArray \/ Len(raw.elems) < 1
       THEN Thrown(<<"Unexpected ACK_SUCCESS response:">> \o raw.elems)
  ELSE IF raw.elems[1] = "OK" THEN Returned(<<"OK">>)
  ELSE IF raw.elems[1] = "ERR"
       THEN Thrown(<<"ACK_SUCCESS failed:",
                     IF Len(raw.elems) > 1 THEN raw.elems[2] ELSE "UNKNOWN">>)
  ELSE Thrown(<<"Unexpected ACK_SUCCESS response:">> \o raw.elems)

\* variant: every reply that is no error is read as FAILED
OpsAckFail_RetryIsFailed(raw) ==
  IF raw.kind = "error" THEN Thrown(raw.elems)
  ELSE IF ~raw.isArray \/ Len(raw.elems) < 1
       THEN Thrown(<<"Unexpected ACK_FAIL response:">> \o raw.elems)
  ELSE IF raw.elems[1] \in {"RETRY", "FAILED"} THEN Returned(<<"FAILED">>)
  ELSE IF raw.elems[1] = "ERR"
       THEN Thrown(<<"ACK_FAIL failed:",
                     IF Len(raw.elems) > 1 THEN raw.elems[2] ELSE "UNKNOWN">>)
  ELSE Thrown(<<"Unexpected ACK_FAIL response:">> \o raw.elems)

\* OmniqOps.ack_fail
OpsAckFail(raw) ==
  IF raw.kind = "error" THEN Thrown(raw.elems)
  ELSE IF ~raw.isArray \/ Len(raw.elems) < 1
       THEN Thrown(<<"Unexpected ACK_FAIL response:">> \o raw.elems)
  ELSE IF raw.elems[1] = "RETRY"  THEN Returned(<<"RETRY", ToInt32(raw.num)>>)
  ELSE IF raw.elems[1] = "FAILED" THEN Returned(<<"FAILED">>)
  ELSE IF raw.elems[1] = "ERR"
       THEN Thrown(<<"ACK_FAIL failed:",
                     IF Len(raw.elems) > 1 THEN raw.elems[2] ELSE "UNKNOWN">>)
  ELSE Thrown(<<"Unexpected ACK_FAIL response:">> \o raw.elems)

AckRaws ==
  { Arr(<<"OK">>), ArrN(<<"RETRY", "#">>, Num(25940255, 7000)), Arr(<<"FAILED">>),
    Arr(<<"ERR", "NOT_ACTIVE">>), Err(<<"ECONNRESET">>) }

\* OmniqOps.job_timeout_ms: the HGET answers (a value or nil) or throws; the
\* method itself adds no failure of its own
OpsJobTimeout(raw) ==
  IF raw.kind = "error" THEN Thrown(raw.elems)
  ELSE Returned(<<IF raw.isArray /\ (raw.num.hi > 0 \/ raw.num.lo > 0)
                    THEN raw.num ELSE Num(0, 60000)>>)

TimeoutRaws == { ArrN(<<"#">>, Num(0, 30000)), NonArr, Err(<<"ECONNRESET">>) }

\* ------------------------------------------------------------------ state
VARIABLES
  cfg,        \* arguments of consume: drain, stop_on_ctrl_c, hb_override
  pc,         \* the await the runloop is suspended at, or how it ended
  ctrl,       \* StopController: stop, sigint_count
  installed,  \* the SIGINT/SIGTERM listeners of this call are registered
  exitCode,   \* 0, or the status process.exit was called with
  interrupts, \* interrupt signals delivered to this call's listener
  promoteElapsed, \* now - lastPromote >= promote_interval_s * 1000
  reapElapsed,    \* now - lastReap    >= reap_interval_s * 1000
  reapDue,    \* the reap test of this iteration (same nowMs), held across
              \* the await of promote_delayed
  res,        \* what the reserve of this iteration gave the loop
  iter,       \* the store calls of this iteration, the reserves that failed
              \* in a row, the sleep the iteration ends with
  rsv,        \* job_id and lease_token of the last reservation (res.job_id,
              \* res.lease_token)
  cur,        \* index of the job in hand (number of jobs taken so far)
  job,        \* the job in hand: handler state, ack issued, lost flag read
  hb,         \* per job: the heartbeater's closure state
  raceTimer,  \* the sleep(100) of the finally block
  stopInHandler, \* a stop request arrived while the handler was running
  \* a heartbeater taken alone, its owner calling stop() at any time
  beater,     \* the closure state of the heartbeater
  issued,     \* heartbeat calls it has issued
  seen,       \* the kinds of settled heartbeat calls it has met
  stops,      \* stop() calls made by its owner
  \* script calls of the operations layer, taken alone
  calls,      \* per caller: its call of evalshaWithNoScriptFallback
  mutex,      \* AsyncMutex objects by key: locked, waiters
  cache,      \* the scripts the store holds in its script cache
  arrivals,   \* callers queued on a mutex and not yet woken, by arrival
  \* one child counter of the store and the child_ack calls made on it
  cc,         \* the counter: live, expected, remaining, the ids it has met
  results,    \* per settled child_ack, in order: child id, value returned,
              \* whether the store ran the script on the initialised counter
  \* one queue of the store and the operations called on it
  jobs,       \* per job id: lane, attempt, max_attempts, lease token,
              \* lock_until, due
  paused,     \* the pause flag of the queue
  now,        \* the store's clock
  leases,     \* reservations granted so far
  running,    \* lease tokens whose handler is running in a consumer
  last,       \* the operation called last, with what it gave its caller
  \* single calls of the operations layer, with their arguments
  api,        \* the call made last: operation, arguments, the commands it
              \* put on the wire, the reply it met, what it gave its caller
  \* a handler at work on the context it was given
  handler     \* the object it holds, whether it read the lease token, the
              \* methods it called

hbUnit == <<beater, issued, seen, stops>>
callUnit == <<calls, mutex, cache, arrivals>>
childUnit == <<cc, results>>
queueUnit == <<jobs, paused, now, leases, running, last>>
apiUnit == <<api>>
execUnit == <<handler>>
units == <<hbUnit, callUnit, childUnit, queueUnit, apiUnit, execUnit>>

consumeVars == <<cfg, pc, ctrl, installed, exitCode, interrupts, promoteElapsed,
                 reapElapsed, reapDue, res, iter, rsv, cur, job, hb, raceTimer,
                 stopInHandler>>

vars == <<consumeVars, units>>

loopVars == <<promoteElapsed, reapElapsed, reapDue, res, iter>>
jobVars  == <<rsv, cur, job, hb, raceTimer>>
sigVars  == <<ctrl, exitCode, interrupts, stopInHandler>>

exited == exitCode /= 0

\* --------------------------------------------------------- heartbeater
HbNew ==
  [stopped |-> FALSE, lost |-> FALSE, timer |-> FALSE,
   imm |-> "none", ticks |-> 0, done |-> FALSE]

\* startHeartbeater: the immediate heartbeat is issued synchronously
HbStart == [HbNew EXCEPT !.imm = "inflight"]

\* variant: stop() clears the interval but forgets to set stopped
HbStop_OnlyClearsTimer(h) == [h EXCEPT !.timer = FALSE, !.done = TRUE]

\* variant: stop() also abandons the heartbeat calls in flight
HbStop_DropsInFlight(h) ==
  [h EXCEPT !.stopped = TRUE, !.timer = FALSE, !.done = TRUE,
            !.imm = IF @ = "inflight" THEN "done" ELSE @, !.ticks = 0]

\* stop(): idempotent; clears the interval and resolves done
HbStop(h) ==
  IF h.stopped THEN h
  ELSE [h EXCEPT !.stopped = TRUE, !.timer = FALSE, !.done = TRUE]

IsLostMsg(msg) == Includes(msg, "NOT_ACTIVE") \/ Includes(msg, "TOKEN_MISMATCH")

\* variant: checkLost looks for NOT_ACTIVE only
CheckLost_NotActiveOnly(h, msg) ==
  IF Includes(msg, "NOT_ACTIVE") THEN HbStop([h EXCEPT !.lost = TRUE]) ELSE h

\* checkLost(e)
CheckLost(h, msg) ==
  IF IsLostMsg(msg) THEN HbStop([h EXCEPT !.lost = TRUE]) ELSE h

\* variant: any failure of the immediate heartbeat ends the task
HbImmSettled_ReturnsOnAnyError(h, r) ==
  IF ~r.ok
    THEN [CheckLost(h, r.msg) EXCEPT !.imm = "done"]
    ELSE IF h.stopped THEN [h EXCEPT !.imm = "done"]
         ELSE [h EXCEPT !.imm = "done", !.timer = TRUE]

\* the immediate heartbeat settles; the interval is created unless stopped
HbImmSettled(h, r) ==
  IF ~r.ok /\ IsLostMsg(r.msg)
    THEN [CheckLost(h, r.msg) EXCEPT !.imm = "done"]
    ELSE IF h.stopped THEN [h EXCEPT !.imm = "done"]
         ELSE [h EXCEPT !.imm = "done", !.timer = TRUE]

\* one firing of the interval callback, up to its await
HbTickFired(h) ==
  IF h.stopped THEN h
  ELSE [h EXCEPT !.ticks = @ + 1]

\* the heartbeat of a tick settles
HbTickSettled(h, r) ==
  [(IF r.ok THEN h ELSE CheckLost(h, r.msg)) EXCEPT !.ticks = @ - 1]

HbInFlight(h) == (IF h.imm = "inflight" THEN 1 ELSE 0) + h.ticks

\* ------------------------------------------- the intervals (ops.ts 655-662)
\* Times are whole numbers here: a timeout is in milliseconds, and the
\* heartbeat interval is in half milliseconds, so that timeout_ms / 2000
\* seconds is the number timeout_ms itself, 1.0 s is 2000 and 10.0 s is
\* 20000; a poll interval and a backoff are in milliseconds, 0.25 s is 250.
MathMax(a, b) == IF a >= b THEN a ELSE b
MathMin(a, b) == IF a <= b THEN a ELSE b

\* variant: the interval has no ceiling
derive_heartbeat_interval_s_NoCeiling(timeout_ms) ==
  LET half == MathMax(2000, timeout_ms)
  IN MathMax(2000, half)

\* variant: the interval may go down to half a second
derive_heartbeat_interval_s_HalfSecondFloor(timeout_ms) ==
  MathMax(1000, MathMin(20000, MathMax(1000, timeout_ms)))

\* derive_heartbeat_interval_s: half of the timeout, between 1 s and 10 s
derive_heartbeat_interval_s(timeout_ms) ==
  LET half == MathMax(2000, timeout_ms)
  IN MathMax(2000, MathMin(20000, half))

\* paused_backoff_s: ten polls, and no less than 0.25 s
paused_backoff_s(poll_interval) == MathMax(250, poll_interval * 10)

\* -------------------------------------------------------------- runloop
\* poll_interval_s of consume, its default, in milliseconds
PollMs == 50

\* the sleep after a reserve that failed or gave a job with no lease token
ErrorSleepMs == 200

\* how long the loop sleeps after a reserve that gave it no job to run
\* (lines 236, 241, 246, 252, 258)
SleepAfter_ErrorPolls(r) ==
  IF r = "PAUSED" THEN MathMax(1, paused_backoff_s(PollMs))
  ELSE MathMax(1, PollMs)

SleepAfter(r) ==
  IF r = "null" THEN MathMax(1, PollMs)
  ELSE IF r = "PAUSED" THEN MathMax(1, paused_backoff_s(PollMs))
  ELSE ErrorSleepMs

\* the iteration under way: the store calls it has made up to its reserve,
\* each with how it settled; the reserves that failed in a row before the
\* reserve awaited or the job in hand; the sleep it ends with.  It is a
\* record of what the loop did, which the loop never reads; it is kept
\* when on is set (LoopSpec) and stays as it is otherwise.
IterNew == [on |-> TRUE, calls |-> <<>>, fails |-> 0, nap |-> 0]
IterOff == [IterNew EXCEPT !.on = FALSE]

\* a store call is issued
Issued(it, op) ==
  IF it.on
    THEN [it EXCEPT !.calls = Append(@, [op |-> op, out |-> "pending"])]
    ELSE it

\* the store call awaited settles
Settled(it, ok) ==
  IF it.on
    THEN [it EXCEPT !.calls[Len(it.calls)].out = IF ok THEN "ok" ELSE "error"]
    ELSE it

\* a new iteration begins with the call of op
Begun(it, op) == Issued([it EXCEPT !.calls = <<>>, !.nap = 0], op)

\* the reserve of the iteration has settled as r
Reserved(it, r) ==
  IF it.on
    THEN [on |-> TRUE, calls |-> <<>>,
          fails |-> IF r = "error" THEN it.fails + 1
                    ELSE IF r = "JOB" THEN it.fails ELSE 0,
          nap |-> IF r = "JOB" THEN 0 ELSE SleepAfter(r)]
    ELSE it

NoRsv == [job_id |-> "", lease_token |-> ""]
NoErr == [name |-> "undefined", message |-> "undefined", str |-> ""]
NoCall == [op |-> "none", job_id |-> "", lease_token |-> "", error |-> <<>>]

\* what a handler may throw: Error objects, and a value that is no object
\* (name and message undefined, str is String(e))
ThrownValues ==
  { [name |-> "TypeError", message |-> "bad", str |-> "TypeError: bad"],
    [name |-> "Error", message |-> "", str |-> "Error"],
    [name |-> "undefined", message |-> "undefined", str |-> "boom"] }

\* variant: the error text is the message alone
ErrMsg_MessageOnly(e) ==
  <<IF e.message = "undefined" THEN e.str ELSE e.message>>

\* line 330: `${e?.name ?? "Error"}: ${String(e?.message ?? e)}`
ErrMsg(e) ==
  << IF e.name = "undefined" THEN "Error" ELSE e.name, ": ",
     IF e.message = "undefined" THEN e.str ELSE e.message >>

\* String(error).trim() === ""
IsBlank(s) == \A i \in DOMAIN s : s[i] \in {"", " "}

\* the arguments OmniqOps.ack_success hands to its script after the key and
\* the time
OpsAckSuccessCall(job_id, lease_token) ==
  [op |-> "ack_success", job_id |-> job_id, lease_token |-> lease_token,
   error |-> <<>>]

\* the arguments OmniqOps.ack_fail hands to its script: the error text is
\* left out when it is blank
OpsAckFailCall(job_id, lease_token, error) ==
  [op |-> "ack_fail", job_id |-> job_id, lease_token |-> lease_token,
   error |-> IF IsBlank(error) THEN <<>> ELSE error]

\* lines 319 and 331-336: the ack call the runloop makes for decision d
AckCall(d, r, e) ==
  IF d = "success" THEN OpsAckSuccessCall(r.job_id, r.lease_token)
  ELSE IF d = "fail" THEN OpsAckFailCall(r.job_id, r.lease_token, ErrMsg(e))
  ELSE NoCall

\* log holds the calls the runloop made for the job, in the order of the code
JobNew == [handler |-> "none", ack |-> "none", lostAtAck |-> FALSE,
           err |-> NoErr, call |-> NoCall, log |-> <<>>]

\* variant: the catch branch acks without looking at the lost flag
AckDecision_FailIgnoresLost(outcome, lost) ==
  IF outcome = "returned" THEN (IF lost THEN "none" ELSE "success") ELSE "fail"

\* variant: the failure of the handler is acked as a success
AckDecision_AlwaysSuccess(outcome, lost) ==
  IF lost THEN "none" ELSE "success"

\* which ack the runloop issues once the handler has settled
AckDecision(outcome, lost) ==
  IF lost THEN "none"
  ELSE IF outcome = "returned" THEN "success" ELSE "fail"

\* variant: the second interrupt exits whatever drain is
SigintExits_IgnoresDrain(drain, count) == count >= 2

\* onSigint: does this interrupt (the count-th) hard-exit the process?
SigintExits(drain, count) == drain /\ count >= 2

\* variant: the test of line 262 with drain the wrong way round
FastExit_WhenDraining(stop, drain) == stop /\ drain

\* line 262: leave right after a reserve that gave a job
FastExit(stop, drain) == stop /\ ~drain

\* ------------------------------------------- script calls (ops layer)
Procs   == 1..MaxProcs
Insts   == {1, 2}                  \* OmniqOps instances of the process
Scripts == {"reserve", "heartbeat"}

\* each caller is a task of one OmniqOps instance calling one operation
\* again and again: callers 2 and 3 share a script across two instances,
\* callers 1 and 3 share an instance
InstOf(p)   == 1 + (p % 2)
ScriptOf(p) == IF p % 3 = 1 THEN "reserve" ELSE "heartbeat"

\* A value thrown by the transport: obj is typeof err === "object", message
\* its message (empty when it has none), str is String(err).
NoError == [obj |-> FALSE, message |-> <<>>, str |-> <<>>]
ErrObj(m) == [obj |-> TRUE, message |-> m, str |-> <<"Error:">> \o m]
ErrStr(m) == [obj |-> FALSE, message |-> <<>>, str |-> m]

\* String.prototype.toUpperCase on the words of the model
ToUpperCase(w) ==
  CASE w = "noscript" -> "NOSCRIPT"
    [] w = "NoScript" -> "NOSCRIPT"
    [] w = "closed."  -> "CLOSED."
    [] OTHER -> w

\* variant: the test is case-sensitive
IsNoScriptError_CaseSensitive(err) ==
  err.obj /\ Includes(err.message, "NOSCRIPT")

\* variant: every error object is taken for a NOSCRIPT error
IsNoScriptError_AnyObject(err) == err.obj

\* isNoScriptError(err)
IsNoScriptError(err) ==
  err.obj /\ \E i \in DOMAIN err.message :
                ToUpperCase(err.message[i]) = "NOSCRIPT"

\* what EVALSHA of a script can meet: the store runs it when it holds the
\* script and refuses with NOSCRIPT when it does not; the transport can
\* fail at any time
ShaOutcomes(cached) ==
  (IF cached
     THEN {[ok |-> TRUE, err |-> NoError]}
     ELSE {[ok |-> FALSE, err |-> ErrObj(<<"NOSCRIPT", "No", "matching", "script.">>)],
           [ok |-> FALSE, err |-> ErrObj(<<"ERR", "noscript">>)]})
  \cup {[ok |-> FALSE, err |-> ErrObj(<<"ECONNRESET">>)],
        [ok |-> FALSE, err |-> ErrStr(<<"NOSCRIPT">>)]}

\* what EVAL of a script source can meet: the store runs it (and then holds
\* the script), or the transport fails
EvalOutcomes ==
  {[ok |-> TRUE, err |-> NoError],
   [ok |-> FALSE, err |-> ErrObj(<<"Connection", "is", "closed.">>)]}

\* new AsyncMutex()
MutexNew == [locked |-> FALSE, waiters |-> <<>>]

\* variant: every OmniqOps instance has a mutex of its own
ScriptMutexOf_PerInstance(inst) == inst

\* OmniqOps._scriptMutex is static: one object whatever the instance (key 0)
ScriptMutexOf(inst) == 0

MutexKeys == {0} \cup Insts

\* lock(), up to its return or its await: take the free mutex, or queue
MutexLock(m, p) ==
  IF ~m.locked THEN [m EXCEPT !.locked = TRUE]
  ELSE [m EXCEPT !.waiters = Append(@, p)]

\* variant: unlock() takes the waiter that came last (pop, not shift)
MutexUnlock_Pop(m) ==
  IF m.waiters /= <<>>
    THEN [m |-> [m EXCEPT !.waiters = SubSeq(@, 1, Len(@) - 1)],
          next |-> m.waiters[Len(m.waiters)]]
    ELSE [m |-> [m EXCEPT !.locked = FALSE], next |-> 0]

\* unlock(): wake the first waiter (next), the mutex staying locked, or
\* free it (next is 0)
MutexUnlock(m) ==
  IF m.waiters /= <<>>
    THEN [m |-> [m EXCEPT !.waiters = Tail(@)], next |-> Head(m.waiters)]
    ELSE [m |-> [m EXCEPT !.locked = FALSE], next |-> 0]

\* variant: the recovery is entered whatever EVALSHA gave
NeedsRecovery_Always(r) == TRUE

\* lines 64-68: the catch is entered on an error, and goes on to the
\* recovery when the error is a NOSCRIPT one
NeedsRecovery(r) == ~r.ok /\ IsNoScriptError(r.err)

\* variant: the source handed over is the reserve script's, whatever the
\* operation
ScriptArgs_ReserveSrc(op) == [sha |-> op, src |-> "reserve"]

\* the sha and the source an operation hands to
\* evalshaWithNoScriptFallback: those of its own script
ScriptArgs(op) == [sha |-> op, src |-> op]

\* a caller with no call yet
CallNew ==
  [pc |-> "idle", evals |-> 0, touched |-> FALSE, underLock |-> FALSE,
   shaErr |-> NoError, out |-> "none"]

\* ------------------------------------------------------ child counter
\* The store's side of childs_init and child_ack, as the specification
\* gives it: the counter starts at the expected count, each child_ack takes
\* one off and answers what remains, the counter is removed when it reaches
\* zero, and a child_ack that finds no counter answers an error.
CcNew == [live |-> FALSE, expected |-> 0, remaining |-> 0, met |-> {}]

StoreChildsInit(c, n) ==
  [cc |-> [live |-> TRUE, expected |-> n, remaining |-> n, met |-> {}],
   raw |-> Arr(<<"OK">>)]

StoreChildAck(c, cid) ==
  IF c.live /\ c.remaining > 0
    THEN [cc |-> [c EXCEPT !.remaining = @ - 1, !.live = (c.remaining > 1),
                           !.met = @ \cup {cid}],
          raw |-> ArrN(<<"OK", "#">>, Num(0, c.remaining - 1))]
    ELSE [cc |-> [c EXCEPT !.met = @ \cup {cid}],
          raw |-> Arr(<<"ERR", "NOT_FOUND">>)]

\* variant: an anomaly is reported as 0
OpsChildAck_AnomalyIsZero(raw) ==
  IF raw.kind = "error" THEN 0
  ELSE IF ~raw.isArray \/ Len(raw.elems) < 1 THEN 0
  ELSE IF raw.elems[1] = "OK"
       THEN (IF Len(raw.elems) < 2 THEN 0
             ELSE IF raw.elems[2] = "#" THEN raw.num.hi * 65536 + raw.num.lo
             ELSE 0)
  ELSE 0

\* OmniqOps.child_ack, from the settled script call to its result: the
\* number that remains, or -1 on any anomaly
OpsChildAck(raw) ==
  IF raw.kind = "error" THEN -1
  ELSE IF ~raw.isArray \/ Len(raw.elems) < 1 THEN -1
  ELSE IF raw.elems[1] = "OK"
       THEN (IF Len(raw.elems) < 2 THEN -1
             ELSE IF raw.elems[2] = "#" THEN raw.num.hi * 65536 + raw.num.lo
             ELSE -1)
  ELSE -1

\* the child ids of the callers: more of them than any expected count
ChildIds == 1..(MaxExpected + 1)

\* ------------------------------------------------- the queue's scripts
\* The store's side of reserve, heartbeat, ack_success, ack_fail,
\* promote_delayed, reap_expired, pause and resume, as the specification
\* gives it.  attempt counts the leases taken; reserve reports the count
\* before its own lease (0 for the first lease of a job).
QJobIds == {"j" \o ToString(i) : i \in 1..MaxStoreJobs}
TokenOf(n) == "t" \o ToString(n)
\* the tokens a caller can present after n leases: those granted so far
\* and one the store never granted
QTokens(n) == {TokenOf(i) : i \in 1..n} \cup {"bogus"}

\* The clock of the store counts in ticks; a job's timeout_ms and its
\* backoff_ms are one tick each.
LeaseTicks   == 1
BackoffTicks == 1

StoreJobNew ==
  [lane |-> "none", attempt |-> 0, max |-> 0, token |-> "", lock |-> 0,
   due |-> 0]

StoreEnqueue(jb, m) ==
  [job |-> [StoreJobNew EXCEPT !.lane = "ready", !.max = m],
   raw |-> Arr(<<"OK", "id">>)]

\* reserve when j heads the ready lane
StoreReserve(js, isPaused, t, tok, j) ==
  IF isPaused THEN [jobs |-> js, raw |-> Arr(<<"PAUSED">>)]
  ELSE IF \A k \in DOMAIN js : js[k].lane /= "ready"
    THEN [jobs |-> js, raw |-> Arr(<<"EMPTY">>)]
  ELSE [jobs |-> [js EXCEPT ![j] =
                   [@ EXCEPT !.lane = "active", !.attempt = @ + 1,
                             !.token = tok, !.lock = t + LeaseTicks]],
        raw |-> Arr(<<"JOB", j, "{}", ToString(t + LeaseTicks),
                      ToString(js[j].attempt), "", tok>>)]

\* the lease test of heartbeat and of the acks
StoreCheck(jb, tok) ==
  IF jb.lane /= "active" THEN "NOT_ACTIVE"
  ELSE IF jb.token /= tok THEN "TOKEN_MISMATCH"
  ELSE "OK"

StoreHeartbeat(jb, t, tok) ==
  IF StoreCheck(jb, tok) /= "OK"
    THEN [job |-> jb, raw |-> Arr(<<"ERR", StoreCheck(jb, tok)>>)]
    ELSE [job |-> [jb EXCEPT !.lock = t + LeaseTicks],
          raw |-> ArrN(<<"OK", "#">>, Num(0, t + LeaseTicks))]

StoreAckSuccess(jb, tok) ==
  IF StoreCheck(jb, tok) /= "OK"
    THEN [job |-> jb, raw |-> Arr(<<"ERR", StoreCheck(jb, tok)>>)]
    ELSE [job |-> [jb EXCEPT !.lane = "absent", !.token = "", !.lock = 0],
          raw |-> Arr(<<"OK">>)]

\* the attempt of the lease in hand is attempt - 1
StoreAckFail(jb, t, tok) ==
  IF StoreCheck(jb, tok) /= "OK"
    THEN [job |-> jb, raw |-> Arr(<<"ERR", StoreCheck(jb, tok)>>)]
  ELSE IF (jb.attempt - 1) + 1 < jb.max
    THEN [job |-> [jb EXCEPT !.lane = "delayed", !.token = "", !.lock = 0,
                              !.due = t + BackoffTicks],
          raw |-> ArrN(<<"RETRY", "#">>, Num(0, t + BackoffTicks))]
    ELSE [job |-> [jb EXCEPT !.lane = "failed", !.token = "", !.lock = 0],
          raw |-> Arr(<<"FAILED">>)]

StorePromote(js, t) ==
  [j \in DOMAIN js |->
     IF js[j].lane = "delayed" /\ js[j].due <= t
       THEN [js[j] EXCEPT !.lane = "ready", !.due = 0]
       ELSE js[j]]

StoreReap(js, t) ==
  [j \in DOMAIN js |->
     IF js[j].lane = "active" /\ js[j].lock < t
       THEN [js[j] EXCEPT !.lane = "ready", !.token = "", !.lock = 0]
       ELSE js[j]]

\* Number(s) | 0 on the numerals of the model
NumOf(s) ==
  LET D == {n \in 0..(MaxLeases + MaxNow + 2) : ToString(n) = s}
  IN IF D = {} THEN 0 ELSE CHOOSE n \in D : TRUE

LastNone ==
  [op |-> "none", job |-> "", tok |-> "", res |-> "", msg |-> <<>>, num |-> 0]

\* ------------------------------------------------------- keys (helper.ts)
\* Queue names, counter keys and child ids are sequences of characters, so
\* that includes, trim and length are computed; the fixed parts of a key
\* (":meta", ":paused", ":job:", "{cc:") are single elements.
Has(s, ch) == \E i \in DOMAIN s : s[i] = ch

StartsWith(k, pre) == Len(k) >= Len(pre) /\ SubSeq(k, 1, Len(pre)) = pre

\* variant: the name is wrapped whatever it holds
queueBase_AlwaysWraps(queueName) == <<"{">> \o queueName \o <<"}">>

\* queueBase
queueBase(queueName) ==
  IF Has(queueName, "{") /\ Has(queueName, "}") THEN queueName
  ELSE <<"{">> \o queueName \o <<"}">>

\* queueAnchor
queueAnchor(queueName) == queueBase(queueName) \o <<":meta">>

\* String.prototype.trim on the blanks of the model
RECURSIVE TrimStart(_)
TrimStart(s) == IF s /= <<>> /\ Head(s) = " " THEN TrimStart(Tail(s)) ELSE s

RECURSIVE TrimEnd(_)
TrimEnd(s) ==
  IF s /= <<>> /\ s[Len(s)] = " " THEN TrimEnd(SubSeq(s, 1, Len(s) - 1)) ELSE s

Trim(s) == TrimEnd(TrimStart(s))

ChildKeyMaxLen == 128

\* variant: a key of any length is taken
childsAnchor_AnyLength(key) ==
  LET k == Trim(key)
  IN IF k = <<>>
       THEN [ok |-> FALSE, key |-> <<>>,
             msg |-> <<"childs_anchor", "key", "is", "required">>]
     ELSE IF Has(k, "{") \/ Has(k, "}")
       THEN [ok |-> FALSE, key |-> <<>>,
             msg |-> <<"childs_anchor", "key", "must", "not", "contain",
                       "braces">>]
     ELSE [ok |-> TRUE, key |-> <<"{cc:">> \o k \o <<"}:meta">>, msg |-> <<>>]

\* childsAnchor: the anchor, or the error it throws
childsAnchor(key) ==
  LET k == Trim(key)
  IN IF k = <<>>
       THEN [ok |-> FALSE, key |-> <<>>,
             msg |-> <<"childs_anchor", "key", "is", "required">>]
     ELSE IF Has(k, "{") \/ Has(k, "}")
       THEN [ok |-> FALSE, key |-> <<>>,
             msg |-> <<"childs_anchor", "key", "must", "not", "contain",
                       "braces">>]
     ELSE IF Len(k) > ChildKeyMaxLen
       THEN [ok |-> FALSE, key |-> <<>>,
             msg |-> <<"childs_anchor", "key", "too", "long">>]
     ELSE [ok |-> TRUE, key |-> <<"{cc:">> \o k \o <<"}:meta">>, msg |-> <<>>]

\* ------------------------------------- one call of the operations layer
\* the commands one evalshaWithNoScriptFallback puts on the wire, given what
\* EVALSHA and (if it comes to it) EVAL meet: sent is the commands, ran is
\* whether the store ran the script, err the error the wrapper throws
Command(cmd, script, numkeys, keys) ==
  [cmd |-> cmd, script |-> script, numkeys |-> numkeys, keys |-> keys]

Invoke(script, numkeys, key, sha, ev) ==
  LET a == ScriptArgs(script)
      c1 == Command("EVALSHA", a.sha, numkeys, <<key>>)
      c2 == Command("EVAL", a.src, numkeys, <<key>>)
  IN IF sha.ok THEN [sent |-> <<c1>>, ran |-> TRUE, err |-> NoError]
     ELSE IF NeedsRecovery(sha)
       THEN [sent |-> <<c1, c2>>, ran |-> ev.ok, err |-> ev.err]
     ELSE [sent |-> <<c1>>, ran |-> FALSE, err |-> sha.err]

\* the ways the store and the transport can treat one script call
Ways ==
  {w \in [sha : ShaOutcomes(TRUE) \cup ShaOutcomes(FALSE), ev : EvalOutcomes] :
     ~NeedsRecovery(w.sha) => w.ev.ok}

\* the message of a thrown error, as words
ErrWords(e) == IF e.obj THEN e.message ELSE e.str

\* the values a caller can hand over as payload: what typeof gives for
\* them, whether they are null, whether Array.isArray holds
Payloads ==
  {[name |-> "null",      typeof |-> "object",    isNull |-> TRUE,  isArray |-> FALSE],
   [name |-> "string",    typeof |-> "string",    isNull |-> FALSE, isArray |-> FALSE],
   [name |-> "number",    typeof |-> "number",    isNull |-> FALSE, isArray |-> FALSE],
   [name |-> "boolean",   typeof |-> "boolean",   isNull |-> FALSE, isArray |-> FALSE],
   [name |-> "undefined", typeof |-> "undefined", isNull |-> FALSE, isArray |-> FALSE],
   [name |-> "object",    typeof |-> "object",    isNull |-> FALSE, isArray |-> FALSE],
   [name |-> "array",     typeof |-> "object",    isNull |-> FALSE, isArray |-> TRUE]}

\* variant: the test is typeof payload === "object" alone
PublishAccepts_TypeofOnly(payload) == payload.typeof = "object"

\* publish, lines 105-114: isObject || isArray
PublishAccepts(payload) ==
  LET isObject == ~payload.isNull /\ payload.typeof = "object" /\ ~payload.isArray
      isArray  == payload.isArray
  IN isObject \/ isArray

\* what a call gave: a value of some kind, or nothing
JobRecNone ==
  [job_id |-> "", payload |-> "", lock_until_ms |-> 0, attempt |-> 0,
   gid |-> "", lease_token |-> ""]

RetNone ==
  [kind |-> "none", num |-> 0, str |-> "", list |-> <<>>, job |-> JobRecNone]
RetStr(x) == [RetNone EXCEPT !.kind = "string", !.str = x]
RetNum(n) == [RetNone EXCEPT !.kind = "number", !.num = n]
RetOf(k)  == [RetNone EXCEPT !.kind = k]
RetList(l) == [RetNone EXCEPT !.kind = "list", !.list = l]
RetJob(j) == [RetNone EXCEPT !.kind = "job", !.job = j]

\* res[i] of a reply (i from 1 here): undefined beyond its end
El(raw, i) == IF i <= Len(raw.elems) THEN raw.elems[i] ELSE "undefined"

\* res[i] ?? ""
ElOr(raw, i) ==
  IF El(raw, i) \in {"undefined", "null"} THEN "" ELSE El(raw, i)

\* Number(res[i]) | 0: of the number of the reply, or of a numeral
Int32At(raw, i) ==
  IF El(raw, i) = "#" THEN ToInt32(raw.num) ELSE NumOf(El(raw, i))

\* variant: the fields after the lock time are read one place early
ReserveJob_OffByOne(raw) ==
  [job_id |-> El(raw, 2), payload |-> El(raw, 3),
   lock_until_ms |-> Int32At(raw, 4), attempt |-> Int32At(raw, 4),
   gid |-> ElOr(raw, 5), lease_token |-> ElOr(raw, 6)]

\* reserve, lines 219-227: the job record made of a JOB reply
ReserveJob(raw) ==
  [job_id |-> El(raw, 2), payload |-> El(raw, 3),
   lock_until_ms |-> Int32At(raw, 4), attempt |-> Int32At(raw, 5),
   gid |-> ElOr(raw, 6), lease_token |-> ElOr(raw, 7)]

\* what reserve returns for a reply it takes
ReserveRet(raw, r) ==
  IF ~r.ok THEN RetNone
  ELSE IF r.val[1] = "JOB" THEN RetJob(ReserveJob(raw))
  ELSE IF r.val[1] = "PAUSED" THEN RetOf("paused")
  ELSE RetOf("null")

\* publish, lines 145-156: the reply of the enqueue script
OpsPublish(raw) ==
  IF ~raw.isArray \/ Len(raw.elems) < 2
    THEN Thrown(<<"Unexpected ENQUEUE response:">> \o raw.elems)
  ELSE IF raw.elems[1] /= "OK"
    THEN Thrown(<<"ENQUEUE failed:", raw.elems[1]>>)
  ELSE Returned(<<raw.elems[2]>>)

\* the cap of the batch calls
BatchMax == 100

\* variant: no cap on the number of job ids
BatchAccepts_NoCap(n) == TRUE

\* retry_failed_batch and remove_jobs_batch, lines 470-472 and 555-557:
\* the test on job_ids.length
BatchAccepts(n) == ~(n > BatchMax)

\* the job ids of a batch of n: the ids in known (jobs of the queue) and
\* ids the queue never held
BatchIds(known, n) ==
  LET S == CHOOSE sq \in [1..Cardinality(known) -> known] :
                    \A a, b \in DOMAIN sq : a /= b => sq[a] /= sq[b]
  IN S \o [i \in 1..(n - Len(S)) |-> "x"]

\* the flat reply of a batch script for the ids lo..hi, in order: OK for
\* a job found in the lane, an error for any other id
RECURSIVE StoreBatchReply(_, _, _, _, _, _)
StoreBatchReply(js, lane, ids, miss, lo, hi) ==
  IF lo > hi THEN <<>>
  ELSE IF lo = hi
    THEN IF ids[lo] \in DOMAIN js /\ js[ids[lo]].lane = lane
           THEN <<ids[lo], "OK">>
           ELSE <<ids[lo], "ERR", miss>>
  ELSE LET mid == (lo + hi) \div 2
       IN StoreBatchReply(js, lane, ids, miss, lo, mid)
          \o StoreBatchReply(js, lane, ids, miss, mid + 1, hi)

\* the jobs of the lane that a batch names
BatchHits(js, lane, ids) ==
  {j \in DOMAIN js : js[j].lane = lane /\ \E i \in DOMAIN ids : ids[i] = j}

\* the store's side of retry_failed_batch, as the specification gives it:
\* a job of the failed lane goes back to ready, any other id is an error
StoreRetryFailedBatch(js, ids) ==
  [jobs |-> [j \in DOMAIN js |->
               IF j \in BatchHits(js, "failed", ids)
                 THEN [js[j] EXCEPT !.lane = "ready", !.attempt = 0]
                 ELSE js[j]],
   raw |-> Arr(StoreBatchReply(js, "failed", ids, "NOT_FAILED", 1, Len(ids)))]

\* the store's side of remove_jobs_batch, as the specification gives it: a
\* job found in the lane is deleted, any other id is an error
StoreRemoveJobsBatch(js, lane, ids) ==
  [jobs |-> [j \in DOMAIN js |->
               IF j \in BatchHits(js, lane, ids)
                 THEN [js[j] EXCEPT !.lane = "absent"]
                 ELSE js[j]],
   raw |-> Arr(StoreBatchReply(js, lane, ids, "NOT_FOUND", 1, Len(ids)))]

\* one turn of the loop of lines 497-511 and 581-595 at index i (from 1
\* here) of the flat reply: the entry [job_id, status, reason or null] and
\* the index of the next turn
BatchEntry(e, i) ==
  LET job_id == e[i]
      status == IF i + 1 <= Len(e) THEN e[i + 1] ELSE ""
  IN IF status = "ERR"
       THEN [entry |-> <<job_id, status,
                         IF i + 2 <= Len(e) THEN e[i + 2] ELSE "UNKNOWN">>,
             next |-> i + 3]
       ELSE [entry |-> <<job_id, status, "null">>, next |-> i + 2]

\* at most k turns of the loop from index i: the entries and where the
\* loop stands after them
RECURSIVE BatchTurns(_, _, _)
BatchTurns(e, i, k) ==
  IF k = 0 \/ i > Len(e) THEN [out |-> <<>>, next |-> i]
  ELSE LET t == BatchEntry(e, i)
           rest == BatchTurns(e, t.next, k - 1)
       IN [out |-> <<t.entry>> \o rest.out, next |-> rest.next]

\* the whole loop, from index i to the end of the reply, taken twelve turns
\* at a time
RECURSIVE BatchEntries(_, _)
BatchEntries(e, i) ==
  IF i > Len(e) THEN <<>>
  ELSE LET c == BatchTurns(e, i, 12)
       IN c.out \o BatchEntries(e, c.next)

\* retry_failed_batch and remove_jobs_batch: the reply of the script
OpsBatch(raw) ==
  IF ~raw.isArray
    THEN Thrown(<<"Unexpected BATCH response:">> \o raw.elems)
  ELSE IF Len(raw.elems) >= 2 /\ raw.elems[1] = "ERR"
    THEN Thrown(<<"BATCH failed:", raw.elems[2]>>)
  ELSE Returned(BatchEntries(raw.elems, 1))

\* no call made yet
ApiNone ==
  [op |-> "none", queue |-> <<>>, arg |-> "", n |-> 0, thrown |-> "none",
   msg |-> <<>>, sent |-> <<>>, replied |-> FALSE, raw |-> NonArr,
   ret |-> RetNone, at |-> Num(0, 0), key |-> <<>>, cid |-> <<>>]

\* a call that threw before it reached the store
ApiRejected(op, q, arg, kind, msg) ==
  [ApiNone EXCEPT !.op = op, !.queue = q, !.arg = arg, !.thrown = kind,
                  !.msg = msg]

\* a call whose script call threw
ApiFailed(op, q, arg, v) ==
  [ApiNone EXCEPT !.op = op, !.queue = q, !.arg = arg, !.thrown = "Error",
                  !.msg = ErrWords(v.err), !.sent = v.sent]

\* a call that met the reply raw and parsed it to r
ApiSettled(op, q, arg, sent, raw, r, ret) ==
  [op |-> op, queue |-> q, arg |-> arg, n |-> 0,
   thrown |-> IF r.ok THEN "none" ELSE "Error", msg |-> r.msg,
   sent |-> sent, replied |-> TRUE, raw |-> raw,
   ret |-> IF r.ok THEN ret ELSE RetNone, at |-> Num(0, 0),
   key |-> <<>>, cid |-> <<>>]

\* ------------------------------------------ what a handler is handed
\* The objects a handler can hold, by class, with the members each one
\* shows: JobCtx (types.ts), Exec (exec.ts), OmniqOps (ops.ts).
ExecMethods ==
  {"publish", "pause", "resume", "is_paused", "childs_init", "child_ack"}

OpsMethods ==
  {"publish", "pause", "resume", "is_paused", "reserve", "heartbeat",
   "ack_success", "ack_fail", "promote_delayed", "reap_expired",
   "job_timeout_ms", "retry_failed", "retry_failed_batch", "remove_job",
   "remove_jobs_batch", "childs_init", "child_ack"}

\* the operations that take a lease token
LeaseOps == {"heartbeat", "ack_success", "ack_fail"}

\* the methods an object of class c shows
Methods(c) ==
  IF c = "Exec" THEN ExecMethods
  ELSE IF c = "OmniqOps" THEN OpsMethods
  ELSE {}

\* the public fields of an object of class c, with the class of what each
\* one holds (of JobCtx, those a handler's reach depends on)
Fields(c) ==
  IF c = "JobCtx"
    THEN [exec |-> "Exec", lease_token |-> "string", job_id |-> "string",
          queue |-> "string"]
  ELSE IF c = "Exec" THEN [ops |-> "OmniqOps", default_child_id |-> "string"]
  ELSE [r |-> "RedisLike", scripts |-> "OmniqScripts"]

\* a handler that was just called with its context
\* ------------------------------------ the arguments of publish
\* The value of an optional field of an argument record: undefined (the
\* field is omitted), null, a number or a string.
JsUndefined == [t |-> "undefined", n |-> 0, s |-> ""]
JsNull == [t |-> "null", n |-> 0, s |-> ""]
JsNumber(n) == [t |-> "number", n |-> n, s |-> ""]
JsString(x) == [t |-> "string", n |-> 0, s |-> x]

\* a = d in a destructuring pattern: the default replaces undefined
OrDefault(v, d) == IF v.t = "undefined" THEN d ELSE v

\* v ?? d: the default replaces undefined and null
Nullish(v, d) == IF v.t \in {"undefined", "null"} THEN d ELSE v

\* the argument records of publish that are tried: every optional field
\* omitted or given (queue, payload and job_id are passed on as they are)
PublishArgs ==
  [max_attempts : {JsUndefined, JsNumber(5)},
   timeout_ms : {JsUndefined, JsNumber(45000)},
   backoff_ms : {JsUndefined, JsNumber(1000)},
   due_ms : {JsUndefined, JsNumber(7)},
   gid : {JsUndefined, JsNull, JsString("g")},
   group_limit : {JsUndefined, JsNumber(2)}]

\* OmniqOps.publish: the arguments it sends to the enqueue script after
\* job id and payload (ops.ts 92-134); a whole number stands for its
\* decimal string, the time of the call is left out
OpsPublishArgv(a) ==
  LET group_limit == OrDefault(a.group_limit, JsNumber(0))
  IN [max_attempts |-> OrDefault(a.max_attempts, JsNumber(3)).n,
      timeout_ms |-> OrDefault(a.timeout_ms, JsNumber(30000)).n,
      backoff_ms |-> OrDefault(a.backoff_ms, JsNumber(5000)).n,
      due_ms |-> OrDefault(a.due_ms, JsNumber(0)).n,
      gid_s |-> Nullish(OrDefault(a.gid, JsNull), JsString("")).s,
      glimit_s |-> IF group_limit.n > 0 THEN group_limit.n ELSE 0]

\* Exec.publish: the record it hands to OmniqOps.publish (exec.ts 100-110)
ExecPublishArgs(a) ==
  [max_attempts |-> Nullish(a.max_attempts, JsNumber(3)),
   timeout_ms |-> Nullish(a.timeout_ms, JsNumber(60000)),
   backoff_ms |-> Nullish(a.backoff_ms, JsNumber(5000)),
   due_ms |-> Nullish(a.due_ms, JsNumber(0)),
   gid |-> Nullish(a.gid, JsNull),
   group_limit |-> Nullish(a.group_limit, JsNumber(0))]

NoPublish ==
  [via |-> "none", args |-> [f \in {} |-> JsUndefined],
   argv |-> [f \in {} |-> 0]]

HandlerNew ==
  [at |-> "JobCtx", token |-> FALSE, called |-> <<>>, sent |-> NoPublish]

Ended == pc \in {"returned", "rejected"}
Live  == ~exited /\ ~Ended /\ pc /= "start"

InitWith(it) ==
  /\ cfg \in [drain : BOOLEAN, stop_on_ctrl_c : BOOLEAN, hb_override : BOOLEAN]
  /\ pc = "start"
  /\ ctrl = [stop |-> FALSE, sigint_count |-> 0]
  /\ installed = FALSE
  /\ exitCode = 0
  /\ interrupts = 0
  /\ promoteElapsed = TRUE
  /\ reapElapsed = TRUE
  /\ reapDue = FALSE
  /\ res = "none"
  /\ iter = it
  /\ rsv = NoRsv
  /\ cur = 0
  /\ job = JobNew
  /\ hb = [j \in JobIds |-> HbNew]
  /\ raceTimer = "none"
  /\ stopInHandler = FALSE
  /\ beater = HbNew
  /\ issued = 0
  /\ seen = {}
  /\ stops = 0
  /\ calls = [p \in Procs |-> CallNew]
  /\ mutex = [k \in MutexKeys |-> MutexNew]
  /\ cache = Scripts
  /\ arrivals = <<>>
  /\ cc = CcNew
  /\ results = <<>>
  /\ jobs = [j \in QJobIds |-> StoreJobNew]
  /\ paused = FALSE
  /\ now = 0
  /\ leases = 0
  /\ running = {}
  /\ last = LastNone
  /\ api = ApiNone
  /\ handler = HandlerNew

\* the state after construction, the record of the iteration not kept
Init == InitWith(IterOff)

\* the same state, the record of the iteration kept
LoopInit == InitWith(IterNew)

\* variant: consume ends without its finally block
Finish_KeepsListeners(how) ==
  /\ pc' = how
  /\ installed' = installed

\* the finally of consume (lines 365-370): with stop_on_ctrl_c, remove the
\* two listeners
Finish(how) ==
  /\ pc' = how
  /\ installed' = IF cfg.stop_on_ctrl_c THEN FALSE ELSE installed

\* issue reserve (line 232)
IssueReserve == pc' = "await_reserve"

\* variant: the loop never looks at the stop flag at its top
EnterIteration_NoStopCheck(inst) ==
  /\ installed' = inst
  /\ res' = "none"
  /\ IF promoteElapsed
       THEN /\ pc' = "await_promote" /\ reapDue' = reapElapsed
            /\ iter' = Begun(iter, "promote_delayed")
       ELSE IF reapElapsed
         THEN /\ pc' = "await_reap" /\ reapDue' = FALSE
              /\ iter' = Begun(iter, "reap_expired")
         ELSE /\ IssueReserve /\ reapDue' = FALSE
              /\ iter' = Begun(iter, "reserve")

\* top of the loop (lines 205-232), run to the first await; inst is whether
\* the listeners are registered while the loop goes on
EnterIteration(inst) ==
  IF ctrl.stop
    THEN Finish("returned") /\ UNCHANGED <<reapDue, res, iter>>
    ELSE /\ installed' = inst
         /\ res' = "none"
         /\ IF promoteElapsed
              THEN /\ pc' = "await_promote" /\ reapDue' = reapElapsed
                   /\ iter' = Begun(iter, "promote_delayed")
              ELSE IF reapElapsed
                THEN /\ pc' = "await_reap" /\ reapDue' = FALSE
                     /\ iter' = Begun(iter, "reap_expired")
                ELSE /\ IssueReserve /\ reapDue' = FALSE
                     /\ iter' = Begun(iter, "reserve")

\* consume is called: install the listeners, enter the loop
Start ==
  /\ pc = "start" /\ ~exited
  /\ EnterIteration(cfg.stop_on_ctrl_c)
  /\ UNCHANGED <<cfg, promoteElapsed, reapElapsed>>
  /\ UNCHANGED jobVars /\ UNCHANGED sigVars /\ UNCHANGED units

\* variant: a promote_delayed that failed leaves lastPromote as it was
PromoteSettle_ErrorNotRecorded(raw) ==
  /\ pc = "await_promote" /\ ~exited
  /\ promoteElapsed' = ~OpsCount(raw).ok
  /\ IF reapDue THEN pc' = "await_reap" ELSE IssueReserve
  /\ iter' = Issued(Settled(iter, OpsCount(raw).ok),
                    IF reapDue THEN "reap_expired" ELSE "reserve")
  /\ reapDue' = FALSE
  /\ UNCHANGED <<cfg, installed, reapElapsed, res>>
  /\ UNCHANGED jobVars /\ UNCHANGED sigVars /\ UNCHANGED units

\* promote_delayed settles (errors ignored); lastPromote = nowMs
PromoteSettle(raw) ==
  /\ pc = "await_promote" /\ ~exited
  /\ OpsCount(raw).ok \in BOOLEAN
  /\ promoteElapsed' = FALSE
  /\ IF reapDue THEN pc' = "await_reap" ELSE IssueReserve
  /\ iter' = Issued(Settled(iter, OpsCount(raw).ok),
                    IF reapDue THEN "reap_expired" ELSE "reserve")
  /\ reapDue' = FALSE
  /\ UNCHANGED <<cfg, installed, reapElapsed, res>>
  /\ UNCHANGED jobVars /\ UNCHANGED sigVars /\ UNCHANGED units

\* reap_expired settles (errors ignored); lastReap = nowMs
ReapSettle(raw) ==
  /\ pc = "await_reap" /\ ~exited
  /\ OpsCount(raw).ok \in BOOLEAN
  /\ reapElapsed' = FALSE
  /\ IssueReserve
  /\ iter' = Issued(Settled(iter, OpsCount(raw).ok), "reserve")
  /\ UNCHANGED <<cfg, installed, promoteElapsed, reapDue, res>>
  /\ UNCHANGED jobVars /\ UNCHANGED sigVars /\ UNCHANGED units

\* wall-clock time passes: an interval since the last promote / reap is over.
\* The two tests are read only at the top of the loop (lines 212, 221), so the
\* passing of time is taken at the suspension that precedes that read.
AtLoopEnd == pc \in {"sleep", "await_race"}

PromoteIntervalElapses ==
  /\ Live /\ AtLoopEnd /\ ~promoteElapsed
  /\ promoteElapsed' = TRUE
  /\ UNCHANGED <<cfg, pc, installed, reapElapsed, reapDue, res, iter>>
  /\ UNCHANGED jobVars /\ UNCHANGED sigVars /\ UNCHANGED units

ReapIntervalElapses ==
  /\ Live /\ AtLoopEnd /\ ~reapElapsed
  /\ reapElapsed' = TRUE
  /\ UNCHANGED <<cfg, pc, installed, promoteElapsed, reapDue, res, iter>>
  /\ UNCHANGED jobVars /\ UNCHANGED sigVars /\ UNCHANGED units

\* lines 267-313: build the context, start the heartbeater, call the handler.
\* The heartbeater of an earlier job lives on in its own closure and touches
\* nothing of the loop; it is followed until the next job starts.
StartJob(j) ==
  /\ hb' = [k \in JobIds |-> IF k = j THEN HbStart ELSE HbNew]
  /\ job' = [JobNew EXCEPT !.handler = "running",
                          !.log = <<"startHeartbeater", "handler">>]
  /\ pc' = "await_handler"

\* reserve settles (lines 233-313)
ReserveSettle(raw) ==
  /\ pc = "await_reserve" /\ ~exited
  /\ LET r == OpsReserve(raw) IN
     IF ~r.ok
       THEN /\ iter.fails < MaxReserveFails
            /\ res' = "error" /\ pc' = "sleep"
            /\ UNCHANGED <<installed, rsv, cur, job, hb>>
     ELSE IF r.val[1] = "null"
       THEN /\ res' = "null" /\ pc' = "sleep"
            /\ UNCHANGED <<installed, rsv, cur, job, hb>>
     ELSE IF r.val[1] = "PAUSED"
       THEN /\ res' = "PAUSED" /\ pc' = "sleep"
            /\ UNCHANGED <<installed, rsv, cur, job, hb>>
     ELSE IF r.val[2] = ""
       THEN /\ res' = "JOB_NO_TOKEN" /\ pc' = "sleep"
            /\ UNCHANGED <<installed, rsv, cur, job, hb>>
     ELSE IF FastExit(ctrl.stop, cfg.drain)
       THEN /\ res' = "JOB" /\ Finish("returned")
            /\ UNCHANGED <<rsv, cur, job, hb>>
     ELSE /\ cur < MaxJobs
          /\ res' = "JOB"
          /\ rsv' = [job_id |-> r.val[3], lease_token |-> r.val[2]]
          /\ cur' = cur + 1
          /\ IF cfg.hb_override
               THEN StartJob(cur + 1)
               ELSE pc' = "await_timeout" /\ UNCHANGED <<job, hb>>
          /\ UNCHANGED installed
  /\ iter' = Reserved(iter, res')
  /\ UNCHANGED <<cfg, promoteElapsed, reapElapsed, reapDue, raceTimer>>
  /\ UNCHANGED sigVars /\ UNCHANGED units

\* job_timeout_ms settles (lines 300-313); a failure escapes the loop
TimeoutSettle(raw) ==
  /\ pc = "await_timeout" /\ ~exited
  /\ IF OpsJobTimeout(raw).ok
       THEN StartJob(cur) /\ UNCHANGED installed
       ELSE Finish("rejected") /\ UNCHANGED <<job, hb>>
  /\ UNCHANGED <<cfg, rsv, cur, raceTimer>>
  /\ UNCHANGED loopVars /\ UNCHANGED sigVars /\ UNCHANGED units

\* a sleep of the loop is over (continue)
SleepDone ==
  /\ pc = "sleep" /\ ~exited
  /\ EnterIteration(installed)
  /\ UNCHANGED <<cfg, promoteElapsed, reapElapsed>>
  /\ UNCHANGED jobVars /\ UNCHANGED sigVars /\ UNCHANGED units

\* the handler settles (lines 313-354): stop the heartbeater, then ack
\* unless the lease is flagged lost
HandlerSettle(outcome, e) ==
  /\ pc = "await_handler" /\ ~exited
  /\ LET h == HbStop(hb[cur])
         d == AckDecision(outcome, h.lost)
         c == AckCall(d, rsv, e)
     IN /\ hb' = [hb EXCEPT ![cur] = h]
        /\ job' = [handler |-> outcome, ack |-> d, lostAtAck |-> h.lost,
                   err |-> e, call |-> c,
                   log |-> job.log \o <<"hb.stop">> \o
                           (IF d = "none" THEN <<>> ELSE <<c.op>>)]
        /\ IF d = "none"
             THEN pc' = "await_race" /\ raceTimer' = "pending"
             ELSE pc' = "await_ack" /\ UNCHANGED raceTimer
  /\ LET d == AckDecision(outcome, HbStop(hb[cur]).lost)
         it == [iter EXCEPT !.fails = 0]
     IN iter' = IF d = "none" THEN it ELSE Issued(it, AckCall(d, rsv, e).op)
  /\ UNCHANGED <<cfg, installed, rsv, cur>>
  /\ UNCHANGED <<promoteElapsed, reapElapsed, reapDue, res>>
  /\ UNCHANGED sigVars /\ UNCHANGED units

\* ack_success / ack_fail settles; its error is logged, never rethrown
\* whether the ack call the loop awaits resolved, given the reply
AckOk(raw) ==
  IF job.ack = "success" THEN OpsAckSuccess(raw).ok ELSE OpsAckFail(raw).ok

\* variant: an ack_success that failed is followed by ack_fail
AckSettle_FailsOver(raw) ==
  /\ pc = "await_ack" /\ ~exited
  /\ IF job.ack = "success" /\ ~AckOk(raw)
       THEN /\ pc' = "await_ack"
            /\ job' = [job EXCEPT !.ack = "fail", !.log = Append(@, "ack_fail")]
            /\ iter' = Issued(Settled(iter, FALSE), "ack_fail")
            /\ UNCHANGED raceTimer
       ELSE /\ pc' = "await_race"
            /\ raceTimer' = "pending"
            /\ iter' = Settled(iter, AckOk(raw))
            /\ UNCHANGED job
  /\ UNCHANGED <<cfg, installed, rsv, cur, hb>>
  /\ UNCHANGED <<promoteElapsed, reapElapsed, reapDue, res>>
  /\ UNCHANGED sigVars /\ UNCHANGED units

AckSettle(raw) ==
  /\ pc = "await_ack" /\ ~exited
  /\ pc' = "await_race"
  /\ raceTimer' = "pending"
  /\ iter' = Settled(iter, AckOk(raw))
  /\ UNCHANGED <<cfg, installed, rsv, cur, job, hb>>
  /\ UNCHANGED <<promoteElapsed, reapElapsed, reapDue, res>>
  /\ UNCHANGED sigVars /\ UNCHANGED units

\* the sleep(100) of the finally block becomes due (100 ms have passed); it
\* is followed only while the race it belongs to is awaited
RaceTimerFires ==
  /\ ~exited
  /\ raceTimer = "pending"
  /\ raceTimer' = "fired"
  /\ UNCHANGED <<cfg, pc, installed, rsv, cur, job, hb>>
  /\ UNCHANGED loopVars /\ UNCHANGED sigVars /\ UNCHANGED units

\* Promise.race([hb.done, sleep(100)]) settles (lines 357-363)
RaceSettle ==
  /\ pc = "await_race" /\ ~exited
  /\ hb[cur].done \/ raceTimer = "fired"
  /\ IF ctrl.stop /\ cfg.drain
       THEN Finish("returned") /\ UNCHANGED <<reapDue, res, iter>>
       ELSE EnterIteration(installed)
  /\ raceTimer' = "none"
  /\ UNCHANGED <<cfg, promoteElapsed, reapElapsed, rsv, cur, job, hb>>
  /\ UNCHANGED sigVars /\ UNCHANGED units

\* ---------------------------------------------- heartbeater task steps
HbFrame ==
  /\ UNCHANGED <<cfg, pc, installed, rsv, cur, job, raceTimer>>
  /\ UNCHANGED loopVars /\ UNCHANGED sigVars /\ UNCHANGED units

HbImmSettle(j, raw) ==
  /\ ~exited
  /\ hb[j].imm = "inflight"
  /\ hb' = [hb EXCEPT ![j] = HbImmSettled(hb[j], OpsHeartbeat(raw))]
  /\ HbFrame

HbTick(j) ==
  /\ ~exited
  /\ hb[j].timer
  /\ hb[j].ticks < MaxTicks
  /\ hb' = [hb EXCEPT ![j] = HbTickFired(hb[j])]
  /\ HbFrame

HbTickSettle(j, raw) ==
  /\ ~exited
  /\ hb[j].ticks > 0
  /\ hb' = [hb EXCEPT ![j] = HbTickSettled(hb[j], OpsHeartbeat(raw))]
  /\ HbFrame

\* ------------------------------------------------------------- signals
SigFrame ==
  /\ UNCHANGED <<cfg, pc, installed>>
  /\ UNCHANGED loopVars /\ UNCHANGED jobVars /\ UNCHANGED units

\* variant: a terminate signal is counted as an interrupt
OnSigterm_CountsAsInterrupt ==
  /\ installed /\ ~exited
  /\ ctrl' = [stop |-> TRUE, sigint_count |-> ctrl.sigint_count + 1]
  /\ stopInHandler' = (stopInHandler \/ pc = "await_handler")
  /\ UNCHANGED <<exitCode, interrupts>>
  /\ SigFrame

\* onSigterm
OnSigterm ==
  /\ installed /\ ~exited
  /\ ctrl' = [ctrl EXCEPT !.stop = TRUE]
  /\ stopInHandler' = (stopInHandler \/ pc = "await_handler")
  /\ UNCHANGED <<exitCode, interrupts>>
  /\ SigFrame

\* onSigint
OnSigint ==
  /\ installed /\ ~exited
  /\ interrupts < MaxSigints
  /\ interrupts' = interrupts + 1
  /\ LET n == ctrl.sigint_count + 1 IN
     IF SigintExits(cfg.drain, n)
       THEN /\ ctrl' = [ctrl EXCEPT !.sigint_count = n]
            /\ exitCode' = ExitStatus
            /\ UNCHANGED stopInHandler
       ELSE /\ ctrl' = [stop |-> TRUE, sigint_count |-> n]
            /\ stopInHandler' = (stopInHandler \/ pc = "await_handler")
            /\ UNCHANGED exitCode
  /\ SigFrame

\* ------------------------------------- the heartbeater taken alone
\* startHeartbeater driven by an owner that may call stop() at any moment,
\* with the calls it issues and the replies it meets recorded.

\* what a settled heartbeat call is, told from the reply itself
LeaseLostRaws == { Arr(<<"ERR", "NOT_ACTIVE">>), Arr(<<"ERR", "TOKEN_MISMATCH">>) }
OtherErrRaws  == { Arr(<<"ERR", "BAD_STATE">>), NonArr, Err(<<"ECONNRESET">>) }

RawKind(raw) ==
  IF raw \in LeaseLostRaws THEN "lease_lost"
  ELSE IF raw \in OtherErrRaws THEN "other_error"
  ELSE IF raw.kind = "reply" /\ raw.isArray /\ raw.elems[1] = "OK" THEN "ok"
  ELSE "lost_text"

UnitFrame == UNCHANGED consumeVars /\ UNCHANGED <<callUnit, childUnit, queueUnit, apiUnit, execUnit>>

\* startHeartbeater(...)
UnitStart ==
  /\ beater = HbNew /\ issued = 0
  /\ beater' = HbStart
  /\ issued' = 1
  /\ UNCHANGED <<seen, stops>>
  /\ UnitFrame

UnitImmSettle(raw) ==
  /\ beater.imm = "inflight"
  /\ beater' = HbImmSettled(beater, OpsHeartbeat(raw))
  /\ seen' = seen \cup {RawKind(raw)}
  /\ UNCHANGED <<issued, stops>>
  /\ UnitFrame

UnitTick ==
  /\ beater.timer
  /\ issued < MaxHbCalls
  /\ beater' = HbTickFired(beater)
  /\ issued' = issued + (beater'.ticks - beater.ticks)
  /\ UNCHANGED <<seen, stops>>
  /\ UnitFrame

UnitTickSettle(raw) ==
  /\ beater.ticks > 0
  /\ beater' = HbTickSettled(beater, OpsHeartbeat(raw))
  /\ seen' = seen \cup {RawKind(raw)}
  /\ UNCHANGED <<issued, stops>>
  /\ UnitFrame

\* the owner calls handle.stop()
UnitStop ==
  /\ beater.imm /= "none"
  /\ stops < MaxStops
  /\ beater' = HbStop(beater)
  /\ stops' = stops + 1
  /\ UNCHANGED <<issued, seen>>
  /\ UnitFrame

\* ------------------------------ evalshaWithNoScriptFallback, taken alone
\* Callers of any OmniqOps instance run script calls side by side against
\* one store whose script cache can be flushed.
CallFrame == UNCHANGED consumeVars /\ UNCHANGED <<hbUnit, childUnit, queueUnit, apiUnit, execUnit>>

\* line 66: the call begins, EVALSHA is issued; underLock notes that the
\* mutex is held at that moment and is cleared by every release
CallStart(p) ==
  /\ calls[p].pc \in {"idle", "done"}
  /\ calls' = [calls EXCEPT ![p] =
       [CallNew EXCEPT !.pc = "evalsha",
                       !.underLock = mutex[ScriptMutexOf(InstOf(p))].locked]]
  /\ UNCHANGED <<mutex, cache, arrivals>>
  /\ CallFrame

\* lines 66-70: EVALSHA settles; a NOSCRIPT error goes on to lock()
EvalshaSettle(p, r) ==
  /\ calls[p].pc = "evalsha"
  /\ LET c == calls[p]
         k == ScriptMutexOf(InstOf(p))
     IN IF NeedsRecovery(r)
          THEN /\ mutex' = [mutex EXCEPT ![k] = MutexLock(@, p)]
               /\ calls' = [calls EXCEPT ![p] =
                      [c EXCEPT !.pc = IF mutex[k].locked THEN "waiting"
                                                          ELSE "acquired",
                                !.shaErr = r.err, !.underLock = FALSE,
                                !.touched = TRUE]]
               /\ arrivals' = IF mutex[k].locked THEN Append(arrivals, p)
                                                 ELSE arrivals
        ELSE IF r.ok
          THEN /\ calls' = [calls EXCEPT ![p] =
                    [c EXCEPT !.pc = "done", !.out = "ok"]]
               /\ UNCHANGED <<mutex, arrivals>>
        ELSE /\ calls' = [calls EXCEPT ![p] =
                    [c EXCEPT !.pc = "done", !.shaErr = r.err,
                              !.underLock = FALSE, !.out = "sha_error"]]
             /\ UNCHANGED <<mutex, arrivals>>
  /\ UNCHANGED cache
  /\ CallFrame

\* lines 30-32: a woken waiter resumes inside lock()
LockResume(p) ==
  /\ calls[p].pc = "woken"
  /\ mutex' = [mutex EXCEPT ![ScriptMutexOf(InstOf(p))].locked = TRUE]
  /\ calls' = [calls EXCEPT ![p].pc = "acquired"]
  /\ UNCHANGED <<cache, arrivals>>
  /\ CallFrame

\* lines 70-73: lock() has returned the release function; EVAL is issued
IssueEval(p) ==
  /\ calls[p].pc = "acquired"
  /\ calls' = [calls EXCEPT ![p].pc = "eval", ![p].evals = @ + 1]
  /\ UNCHANGED <<mutex, cache, arrivals>>
  /\ CallFrame

\* lines 73-76: EVAL settles; the finally releases the mutex, which wakes
\* the first waiter if there is one
EvalSettle(p, r) ==
  /\ calls[p].pc = "eval"
  /\ LET c == calls[p]
         k == ScriptMutexOf(InstOf(p))
         u == MutexUnlock(mutex[k])
     IN /\ cache' = IF r.ok THEN cache \cup {ScriptArgs(ScriptOf(p)).src}
                            ELSE cache
        /\ mutex' = [mutex EXCEPT ![k] = u.m]
        /\ arrivals' = SelectSeq(arrivals, LAMBDA q : q /= u.next)
        /\ calls' = [q \in Procs |->
             IF q = p
               THEN [c EXCEPT !.pc = "done",
                              !.out = IF r.ok THEN "ok" ELSE "eval_error"]
             ELSE IF q = u.next
               THEN [calls[q] EXCEPT !.pc = "woken"]
             ELSE [calls[q] EXCEPT !.underLock = FALSE]]
  /\ CallFrame

\* the store loses its script cache (SCRIPT FLUSH, a restart)
Flush ==
  /\ cache /= {}
  /\ cache' = {}
  /\ UNCHANGED <<calls, mutex, arrivals>>
  /\ CallFrame

\* ------------------------------------------- child counter, taken alone
ChildFrame == UNCHANGED consumeVars /\ UNCHANGED <<hbUnit, callUnit, queueUnit, apiUnit, execUnit>>

\* childs_init(key, n) by the parent
ChildsInit(n) ==
  /\ ~cc.live /\ cc.expected = 0
  /\ cc' = StoreChildsInit(cc, n).cc
  /\ UNCHANGED results
  /\ ChildFrame

\* child_ack(key, cid) by a worker: the script runs and its reply comes back
ChildAck(cid) ==
  /\ Len(results) < MaxChildCalls
  /\ cid \notin cc.met
  /\ LET a == StoreChildAck(cc, cid) IN
       /\ cc' = a.cc
       /\ results' = Append(results,
             [cid |-> cid, val |-> OpsChildAck(a.raw),
              ran |-> cc.expected > 0])
  /\ ChildFrame

\* child_ack(key, cid) that fails before the script runs
ChildAckFails(cid) ==
  /\ Len(results) < MaxChildCalls
  /\ cid \notin cc.met
  /\ results' = Append(results,
        [cid |-> cid, val |-> OpsChildAck(Err(<<"ECONNRESET">>)),
         ran |-> FALSE])
  /\ UNCHANGED cc
  /\ ChildFrame

\* ------------------------------------------------ the queue, taken alone
\* Callers of the operations layer against one queue of the store; each
\* script runs atomically and its reply goes through the method's parsing.
QFrame == UNCHANGED consumeVars /\ UNCHANGED <<hbUnit, callUnit, childUnit, apiUnit, execUnit>>

\* what a call gave its caller
Gave(op, j, tok, r, word, n) ==
  [op |-> op, job |-> j, tok |-> tok,
   res |-> IF r.ok THEN word ELSE "thrown", msg |-> r.msg,
   num |-> IF r.ok THEN n ELSE 0]

\* publish of a new job with max_attempts m
QPublish(j, m) ==
  /\ jobs[j].lane = "none"
  /\ jobs' = [jobs EXCEPT ![j] = StoreEnqueue(jobs[j], m).job]
  /\ last' = [LastNone EXCEPT !.op = "publish", !.job = j]
  /\ UNCHANGED <<paused, now, leases, running>>
  /\ QFrame

\* reserve by a consumer (consumer.ts lines 230-313): a JOB with a lease
\* token has its handler started
QReserve(j) ==
  /\ leases < MaxLeases
  /\ LET tok == TokenOf(leases + 1)
         a == StoreReserve(jobs, paused, now, tok, j)
         r == OpsReserve(a.raw)
         isJob == r.ok /\ r.val[1] = "JOB"
     IN /\ jobs' = a.jobs
        /\ leases' = IF a.jobs /= jobs THEN leases + 1 ELSE leases
        /\ running' = IF isJob /\ r.val[2] /= ""
                        THEN running \cup {r.val[2]} ELSE running
        /\ last' = Gave("reserve", IF isJob THEN r.val[3] ELSE "",
                        IF isJob THEN r.val[2] ELSE "", r,
                        IF r.ok THEN r.val[1] ELSE "",
                        IF isJob THEN NumOf(r.val[4]) ELSE 0)
  /\ UNCHANGED <<paused, now>>
  /\ QFrame

\* heartbeat of job j under token tok, by any caller
QHeartbeat(j, tok) ==
  /\ LET a == StoreHeartbeat(jobs[j], now, tok)
         r == OpsHeartbeat(a.raw)
     IN /\ jobs' = [jobs EXCEPT ![j] = a.job]
        /\ last' = Gave("heartbeat", j, tok, r, "ok",
                        IF r.ok THEN r.val[1] ELSE 0)
  /\ UNCHANGED <<paused, now, leases, running>>
  /\ QFrame

\* ack_success of job j under token tok; the consumer that ran the handler
\* of that lease is done with it
QAckSuccess(j, tok) ==
  /\ LET a == StoreAckSuccess(jobs[j], tok)
         r == OpsAckSuccess(a.raw)
     IN /\ jobs' = [jobs EXCEPT ![j] = a.job]
        /\ last' = Gave("ack_success", j, tok, r, "ok", 0)
  /\ running' = running \ {tok}
  /\ UNCHANGED <<paused, now, leases>>
  /\ QFrame

\* ack_fail of job j under token tok
QAckFail(j, tok) ==
  /\ LET a == StoreAckFail(jobs[j], now, tok)
         r == OpsAckFail(a.raw)
     IN /\ jobs' = [jobs EXCEPT ![j] = a.job]
        /\ last' = Gave("ack_fail", j, tok, r,
                        IF r.ok THEN r.val[1] ELSE "", 0)
  /\ running' = running \ {tok}
  /\ UNCHANGED <<paused, now, leases>>
  /\ QFrame

QPromote ==
  /\ jobs' = StorePromote(jobs, now)
  /\ last' = [LastNone EXCEPT !.op = "promote_delayed"]
  /\ UNCHANGED <<paused, now, leases, running>>
  /\ QFrame

QReap ==
  /\ jobs' = StoreReap(jobs, now)
  /\ last' = [LastNone EXCEPT !.op = "reap_expired"]
  /\ UNCHANGED <<paused, now, leases, running>>
  /\ QFrame

QPause ==
  /\ paused' = TRUE
  /\ last' = [LastNone EXCEPT !.op = "pause"]
  /\ UNCHANGED <<jobs, now, leases, running>>
  /\ QFrame

QResume ==
  /\ paused' = FALSE
  /\ last' = [LastNone EXCEPT !.op = "resume"]
  /\ UNCHANGED <<jobs, now, leases, running>>
  /\ QFrame

\* the store's clock moves on
QTick ==
  /\ now < MaxNow
  /\ now' = now + 1
  /\ last' = LastNone
  /\ UNCHANGED <<jobs, paused, leases, running>>
  /\ QFrame

\* ---------------------------- calls of the operations layer, one by one
\* A caller makes one call at a time on the queue of the store, with any
\* arguments; the script call goes any way the store and the transport
\* allow.
ApiFrame ==
  /\ UNCHANGED consumeVars
  /\ UNCHANGED <<hbUnit, callUnit, childUnit, execUnit>>
  /\ UNCHANGED <<paused, now, leases, running, last>>

\* the job the calls are about
ApiJob == "j1"

\* the queue names of the callers
QueueNames ==
  {<<"q">>, <<"{", "q", "}">>, <<"a", "{", "b">>, <<"}", "q", "{">>}

\* publish of job j with max_attempts 1
ApiPublish(q, payload, j, w) ==
  /\ PublishAccepts(payload) => jobs[j].lane = "none"
  /\ IF ~PublishAccepts(payload)
       THEN /\ api' = ApiRejected("publish", q, payload.name, "TypeError",
                                  <<"publish(payload=...)", "must", "be",
                                    "an", "object", "or", "array">>)
            /\ UNCHANGED jobs
       ELSE LET v == Invoke("enqueue", 1, queueAnchor(q), w.sha, w.ev)
                a == StoreEnqueue(jobs[j], 1)
                r == OpsPublish(a.raw)
            IN IF v.ran
                 THEN /\ jobs' = [jobs EXCEPT ![j] = a.job]
                      /\ api' = ApiSettled("publish", q, payload.name, v.sent,
                                           a.raw, r, RetStr(j))
                 ELSE /\ api' = ApiFailed("publish", q, payload.name, v)
                      /\ UNCHANGED jobs
  /\ ApiFrame

\* the numbers of job ids the callers put in a batch
BatchSizes == {0, 1, BatchMax, BatchMax + 1}

\* the queue names the batch calls are made with
BatchQueues == {<<"q">>, <<"{", "q", "}">>}

\* somewhere a consumer leases the ready job j and fails it for good
ApiJobDies(j) ==
  /\ jobs[j].lane = "ready"
  /\ LET a == StoreReserve(jobs, FALSE, now, "tx", j)
         b == StoreAckFail(a.jobs[j], now, "tx")
     IN jobs' = [jobs EXCEPT ![j] = b.job]
  /\ api' = ApiNone
  /\ ApiFrame

\* retry_failed_batch with n job ids, those of known among them
ApiRetryFailedBatch(q, known, n, w) ==
  /\ Cardinality(known) <= n
  /\ IF ~BatchAccepts(n)
       THEN /\ api' = [ApiRejected("retry_failed_batch", q, "", "Error",
                                   <<"retry_failed_batch", "max", "is",
                                     "100", "job_ids", "per", "call">>)
                         EXCEPT !.n = n]
            /\ UNCHANGED jobs
       ELSE LET v == Invoke("retry_failed_batch", 1, queueAnchor(q), w.sha, w.ev)
                a == StoreRetryFailedBatch(jobs, BatchIds(known, n))
                r == OpsBatch(a.raw)
            IN IF v.ran
                 THEN /\ jobs' = a.jobs
                      /\ api' = [ApiSettled("retry_failed_batch", q, "",
                                            v.sent, a.raw, r, RetList(r.val))
                                  EXCEPT !.n = n]
                 ELSE /\ api' = [ApiFailed("retry_failed_batch", q, "", v)
                                  EXCEPT !.n = n]
                      /\ UNCHANGED jobs
  /\ ApiFrame

\* remove_jobs_batch of a lane with n job ids, those of known among them
ApiRemoveJobsBatch(q, lane, known, n, w) ==
  /\ Cardinality(known) <= n
  /\ IF ~BatchAccepts(n)
       THEN /\ api' = [ApiRejected("remove_jobs_batch", q, lane, "Error",
                                   <<"remove_jobs_batch", "max", "is",
                                     "100", "job_ids", "per", "call">>)
                         EXCEPT !.n = n]
            /\ UNCHANGED jobs
       ELSE LET v == Invoke("remove_jobs_batch", 1, queueAnchor(q), w.sha, w.ev)
                a == StoreRemoveJobsBatch(jobs, lane, BatchIds(known, n))
                r == OpsBatch(a.raw)
            IN IF v.ran
                 THEN /\ jobs' = a.jobs
                      /\ api' = [ApiSettled("remove_jobs_batch", q, lane,
                                            v.sent, a.raw, r, RetList(r.val))
                                  EXCEPT !.n = n]
                 ELSE /\ api' = [ApiFailed("remove_jobs_batch", q, lane, v)
                                  EXCEPT !.n = n]
                      /\ UNCHANGED jobs
  /\ ApiFrame

\* ------------------------- the replies the operations layer can meet
\* One call at a time, the store answering anything: the call is followed
\* from its arguments to what it gives its caller.
ReplyFrame ==
  /\ UNCHANGED consumeVars
  /\ UNCHANGED <<hbUnit, callUnit, childUnit, queueUnit, execUnit>>

\* an epoch time in milliseconds, of the year 2023
EpochMs == Num(25940255, 5000)

\* what the reserve script can be seen to answer
ReserveReplies ==
  { Arr(<<"EMPTY">>), Arr(<<"EMPTY", "x">>), Arr(<<"PAUSED">>),
    ArrN(<<"JOB", "j1", "{}", "#", "1", "g", "t1">>, Num(0, 5000)),
    ArrN(<<"JOB", "j1", "{}", "#", "0", "null", "t1">>, EpochMs),
    ArrN(<<"JOB", "j1", "{}", "#", "0", "", "t1", "more">>, Num(0, 5000)),
    ArrN(<<"JOB", "j1", "{}", "#", "0", "">>, Num(0, 5000)),
    Arr(<<"JOB">>), Arr(<<"WAT">>), Arr(<<"OK", "j1">>), Arr(<<>>), NonArr }

\* a call of the script of op with the queue's anchor as its one key, the
\* store answering raw when the script ran; r is what the operation makes
\* of raw and ret what it then returns
ScriptCall(op, q, w, raw, r, ret) ==
  LET v == Invoke(op, 1, queueAnchor(q), w.sha, w.ev)
  IN IF v.ran THEN ApiSettled(op, q, "", v.sent, raw, r, ret)
     ELSE ApiFailed(op, q, "", v)

\* reserve on queue q
RReserve(q, w, raw) ==
  /\ LET r == OpsReserve(raw)
     IN api' = ScriptCall("reserve", q, w, raw, r, ReserveRet(raw, r))
  /\ ReplyFrame

\* n + d for a number of a reply, 0 <= d < 2^16
NumAdd(n, d) == Num(n.hi + ((n.lo + d) \div 65536), (n.lo + d) % 65536)

\* the times a caller or the store can have on its clock: small ones, the
\* ones around 2^31 - 1, an epoch time; 2^31 is Num(32768, 0)
Times ==
  { Num(0, 1000), Num(32767, 64000), Num(32767, 65535), Num(32768, 0),
    EpochMs }

\* the replies of the store that are no thrown error
Replies(raws) == {x \in raws : x.kind = "reply"}

\* heartbeat: the new lock time is the store's to choose
HeartbeatReplies ==
  {ArrN(<<"OK", "#">>, t) : t \in Times} \cup Replies(HbRaws)

\* heartbeat on queue q
RHeartbeat(q, w, raw) ==
  /\ LET r == OpsHeartbeat(raw)
     IN api' = ScriptCall("heartbeat", q, w, raw, r,
                          IF r.ok THEN RetNum(r.val[1]) ELSE RetNone)
  /\ ReplyFrame

\* the backoff of the job whose failure is acknowledged
BackoffMs == 1000

\* the time a failed job with attempts left is due again: the time of the
\* failure plus the job's backoff
StoreRetryDue(t, backoff) == NumAdd(t, backoff)

\* what ack_fail can be answered at time t
AckFailReplies(t) ==
  {ArrN(<<"RETRY", "#">>, StoreRetryDue(t, BackoffMs)), Arr(<<"RETRY">>)}
    \cup {x \in Replies(AckRaws) : x.elems[1] /= "RETRY"}

\* what ack_fail returns: the pair's first element is the kind
AckFailRet(r) ==
  IF ~r.ok THEN RetNone
  ELSE IF r.val[1] = "RETRY" THEN [RetNum(r.val[2]) EXCEPT !.kind = "retry"]
  ELSE RetOf("failed")

\* ack_fail on queue q with now_ms = t
RAckFail(q, w, t, raw) ==
  /\ LET r == OpsAckFail(raw)
     IN api' = [ScriptCall("ack_fail", q, w, raw, r, AckFailRet(r))
                  EXCEPT !.at = t]
  /\ ReplyFrame

\* the timeouts handed over: every quarter of a second up to the bound, a
\* few below zero, and the neighbours of the two ends of the range
TimeoutsMs ==
  {250 * k : k \in (0 - 4)..MaxTimeoutSteps}
    \cup {1, 1000, 1999, 2001, 3999, 4001, 19999, 20001}

\* the poll intervals handed over, every 5 ms up to the bound
PollsMs == {5 * k : k \in (0 - 2)..MaxPollSteps}

\* a call of derive_heartbeat_interval_s
DeriveHeartbeatInterval(t) ==
  /\ api' = [ApiNone EXCEPT !.op = "derive_heartbeat_interval_s", !.n = t,
                            !.ret = RetNum(derive_heartbeat_interval_s(t))]
  /\ ReplyFrame

\* a call of paused_backoff_s
PausedBackoff(poll) ==
  /\ api' = [ApiNone EXCEPT !.op = "paused_backoff_s", !.n = poll,
                            !.ret = RetNum(paused_backoff_s(poll))]
  /\ ReplyFrame

\* a command that is no script call, on one key
Plain(cmd, key) == Command(cmd, "", 0, <<key>>)

\* is_paused: EXISTS on the pause flag; n is what the store counts, and a
\* failure of the transport is thrown on
RIsPaused(q, n, ok) ==
  /\ LET c == Plain("EXISTS", queueBase(q) \o <<":paused">>)
         told == [ApiNone EXCEPT !.op = "is_paused", !.queue = q,
                                 !.sent = <<c>>]
     IN api' = IF ok
                 THEN [told EXCEPT !.replied = TRUE, !.raw = ArrN(<<"#">>, Num(0, n)),
                                   !.ret = RetOf(IF n = 1 THEN "true" ELSE "false")]
                 ELSE [told EXCEPT !.thrown = "Error",
                                   !.msg = <<"ECONNRESET">>]
  /\ ReplyFrame

\* job_timeout_ms of job j: HGET on the job's record
RJobTimeout(q, j, raw) ==
  /\ LET c == Plain("HGET", queueBase(q) \o <<":job:", j>>)
         r == OpsJobTimeout(raw)
         told == [ApiNone EXCEPT !.op = "job_timeout_ms", !.queue = q,
                                 !.arg = j, !.sent = <<c>>]
     IN api' = IF r.ok
                 THEN [told EXCEPT !.replied = TRUE, !.raw = raw,
                                   !.ret = RetNum(r.val[1].hi * 65536 + r.val[1].lo)]
                 ELSE [told EXCEPT !.thrown = "Error", !.msg = r.msg]
  /\ ReplyFrame

\* a key of n characters
KeyOfLen(n) == [i \in 1..n |-> "k"]

\* the counter keys of the callers: empty, blank, plain, padded, with a
\* brace, of the greatest length and one longer
ChildKeys ==
  { <<>>, <<" ">>, <<"k">>, <<" ", "k", " ">>, <<"k", "{">>, <<"}", "k">>,
    KeyOfLen(ChildKeyMaxLen), KeyOfLen(ChildKeyMaxLen + 1) }

\* the child ids of the callers: empty, blank, plain, padded
ChildIdArgs == { <<>>, <<" ">>, <<"c">>, <<" ", "c">> }

\* what the child_ack script can be seen to answer
ChildAckReplies ==
  { ArrN(<<"OK", "#">>, Num(0, 0)), ArrN(<<"OK", "#">>, Num(0, 2)),
    Arr(<<"OK", "NaN">>), Arr(<<"OK">>), Arr(<<"ERR", "NOT_FOUND">>),
    NonArr }

\* child_ack: the key and the child id are looked at before the try; what
\* the script call throws is caught
RChildAck(k, c, w, raw) ==
  /\ LET a == childsAnchor(k)
         cid == Trim(c)
         v == Invoke("child_ack", 1, a.key, w.sha, w.ev)
         told == [ApiNone EXCEPT !.op = "child_ack", !.key = k, !.cid = c]
     IN api' =
          IF ~a.ok
            THEN [told EXCEPT !.thrown = "Error", !.msg = a.msg]
          ELSE IF cid = <<>>
            THEN [told EXCEPT !.thrown = "Error",
                              !.msg = <<"child_ack", "child_id", "is",
                                        "required">>]
          ELSE IF v.ran
            THEN [told EXCEPT !.sent = v.sent, !.replied = TRUE, !.raw = raw,
                              !.ret = RetNum(OpsChildAck(raw))]
          ELSE [told EXCEPT !.sent = v.sent, !.ret = RetNum(-1)]
  /\ ReplyFrame

\* the counts promote_delayed and reap_expired can be answered
CountReplies ==
  {ArrN(<<"OK", "#">>, Num(0, k)) : k \in 0..3}
    \cup {Arr(<<"OK">>), Arr(<<>>), NonArr} \cup Replies(CountRaws)

\* promote_delayed or reap_expired on queue q
RCount(op, q, w, raw) ==
  /\ LET r == OpsCount(raw)
     IN api' = ScriptCall(op, q, w, raw, r,
                          IF r.ok THEN RetNum(r.val[1]) ELSE RetNone)
  /\ ReplyFrame

\* ------------------------------------------------- a handler at work
ExecFrame ==
  /\ UNCHANGED consumeVars
  /\ UNCHANGED <<hbUnit, callUnit, childUnit, queueUnit, apiUnit>>

\* the handler reads field f of the object it holds: an object it then
\* holds, or the lease token of its context
HandlerRead(f) ==
  /\ handler.at \in {"JobCtx", "Exec", "OmniqOps"}
  /\ f \in DOMAIN Fields(handler.at)
  /\ \/ /\ Fields(handler.at)[f] \in {"Exec", "OmniqOps"}
        /\ handler' = [handler EXCEPT !.at = Fields(handler.at)[f]]
     \/ /\ f = "lease_token" /\ ~handler.token
        /\ handler' = [handler EXCEPT !.token = TRUE]
  /\ ExecFrame

\* the handler calls method m of the object it holds, and starts again
\* from its context
HandlerCall(m) ==
  /\ m \in Methods(handler.at)
  /\ Len(handler.called) < MaxHandlerCalls
  /\ handler' = [handler EXCEPT
                   !.called = Append(@, [on |-> handler.at, name |-> m]),
                   !.at = "JobCtx"]
  /\ ExecFrame

\* the handler calls publish with record a on the Exec or the OmniqOps it
\* holds; sent keeps what reached the enqueue script
HandlerPublish(a) ==
  /\ handler.at \in {"Exec", "OmniqOps"}
  /\ Len(handler.called) < MaxHandlerCalls
  /\ handler' = [handler EXCEPT
                   !.called = Append(@, [on |-> handler.at, name |-> "publish"]),
                   !.sent = [via |-> handler.at, args |-> a,
                             argv |-> IF handler.at = "Exec"
                                        THEN OpsPublishArgv(ExecPublishArgs(a))
                                        ELSE OpsPublishArgv(a)],
                   !.at = "JobCtx"]
  /\ ExecFrame

\* ---------------------------------------------------------------- spec
Next ==
  \/ Start
  \/ \E raw \in CountRaws : PromoteSettle(raw)
  \/ \E raw \in CountRaws : ReapSettle(raw)
  \/ PromoteIntervalElapses
  \/ ReapIntervalElapses
  \/ \E raw \in ReserveRaws : ReserveSettle(raw)
  \/ \E raw \in TimeoutRaws : TimeoutSettle(raw)
  \/ SleepDone
  \/ HandlerSettle("returned", NoErr)
  \/ \E e \in ThrownValues : HandlerSettle("threw", e)
  \/ \E raw \in AckRaws : AckSettle(raw)
  \/ RaceTimerFires
  \/ RaceSettle
  \/ \E j \in JobIds, raw \in HbRaws : HbImmSettle(j, raw)
  \/ \E j \in JobIds : HbTick(j)
  \/ \E j \in JobIds, raw \in HbRaws : HbTickSettle(j, raw)
  \/ OnSigterm
  \/ OnSigint

Spec == Init /\ [][Next]_vars

\* the runloop with the record of its iterations
LoopSpec == LoopInit /\ [][Next]_vars

\* every store call, sleep and handler the runloop awaits settles
Settles ==
  \/ \E raw \in CountRaws : PromoteSettle(raw)
  \/ \E raw \in CountRaws : ReapSettle(raw)
  \/ \E raw \in ReserveRaws : ReserveSettle(raw)
  \/ \E raw \in TimeoutRaws : TimeoutSettle(raw)
  \/ SleepDone
  \/ HandlerSettle("returned", NoErr)
  \/ \E e \in ThrownValues : HandlerSettle("threw", e)
  \/ \E raw \in AckRaws : AckSettle(raw)
  \/ RaceSettle

FairSpec == Spec /\ WF_vars(Start) /\ WF_vars(Settles)

UnitNext ==
  \/ UnitStart
  \/ \E raw \in HbRaws : UnitImmSettle(raw)
  \/ UnitTick
  \/ \E raw \in HbRaws : UnitTickSettle(raw)
  \/ UnitStop

HbSpec == Init /\ [][UnitNext]_vars

\* the runloop is not under study here: one configuration of it is enough
CallInit ==
  /\ Init
  /\ cfg = [drain |-> TRUE, stop_on_ctrl_c |-> TRUE, hb_override |-> FALSE]

QueueNext ==
  \/ \E j \in QJobIds, m \in 1..2 : QPublish(j, m)
  \/ \E j \in QJobIds :
       /\ (jobs[j].lane = "ready" \/ \A k \in QJobIds : jobs[k].lane /= "ready")
       /\ QReserve(j)
  \/ \E j \in QJobIds, tok \in QTokens(leases) : QHeartbeat(j, tok)
  \/ \E j \in QJobIds, tok \in QTokens(leases) : QAckSuccess(j, tok)
  \/ \E j \in QJobIds, tok \in QTokens(leases) : QAckFail(j, tok)
  \/ QPromote
  \/ QReap
  \/ QPause
  \/ QResume
  \/ QTick

QueueSpec == CallInit /\ [][QueueNext]_vars

ApiNext ==
  \/ \E q \in QueueNames, payload \in Payloads, w \in Ways :
       ApiPublish(q, payload, ApiJob, w)
  \/ ApiJobDies(ApiJob)
  \/ \E q \in BatchQueues, known \in {{}, {ApiJob}}, n \in BatchSizes, w \in Ways :
       ApiRetryFailedBatch(q, known, n, w)
  \/ \E q \in BatchQueues, lane \in {"ready", "failed"},
        known \in {{}, {ApiJob}}, n \in BatchSizes, w \in Ways :
       ApiRemoveJobsBatch(q, lane, known, n, w)

ApiSpec == CallInit /\ [][ApiNext]_vars

ReplyNext ==
  \/ \E q \in QueueNames, w \in Ways, raw \in ReserveReplies : RReserve(q, w, raw)
  \/ \E q \in BatchQueues, w \in Ways, raw \in HeartbeatReplies : RHeartbeat(q, w, raw)
  \/ \E q \in BatchQueues, w \in Ways, t \in Times : \E raw \in AckFailReplies(t) : RAckFail(q, w, t, raw)
  \/ \E q \in QueueNames, n \in 0..1, ok \in BOOLEAN : RIsPaused(q, n, ok)
  \/ \E q \in QueueNames, raw \in TimeoutRaws : RJobTimeout(q, ApiJob, raw)
  \/ \E k \in ChildKeys, c \in ChildIdArgs, w \in Ways, raw \in ChildAckReplies : RChildAck(k, c, w, raw)
  \/ \E op \in {"promote_delayed", "reap_expired"}, q \in BatchQueues, w \in Ways, raw \in CountReplies : RCount(op, q, w, raw)

ReplySpec == CallInit /\ [][ReplyNext]_vars

ExecNext ==
  \/ \E f \in {"exec", "ops", "lease_token", "job_id", "r"} : HandlerRead(f)
  \/ \E m \in ExecMethods \cup OpsMethods : HandlerCall(m)
  \/ \E a \in PublishArgs : HandlerPublish(a)

ExecSpec == CallInit /\ [][ExecNext]_vars

IntervalNext ==
  \/ \E t \in TimeoutsMs : DeriveHeartbeatInterval(t)
  \/ \E poll \in PollsMs : PausedBackoff(poll)

IntervalSpec == CallInit /\ [][IntervalNext]_vars

ChildNext ==
  \/ \E n \in 1..MaxExpected : ChildsInit(n)
  \/ \E cid \in ChildIds : ChildAck(cid)
  \/ \E cid \in ChildIds : ChildAckFails(cid)

ChildSpec == CallInit /\ [][ChildNext]_vars

CallNext ==
  \/ \E p \in Procs : CallStart(p)
  \/ \E p \in Procs :
       \E r \in ShaOutcomes(ScriptArgs(ScriptOf(p)).sha \in cache) :
          EvalshaSettle(p, r)
  \/ \E p \in Procs : LockResume(p)
  \/ \E p \in Procs : IssueEval(p)
  \/ \E p \in Procs, r \in EvalOutcomes : EvalSettle(p, r)
  \/ Flush

CallSpec == CallInit /\ [][CallNext]_vars

\* a woken waiter resumes, a holder issues its EVAL, every EVAL settles
CallFairSpec ==
  /\ CallSpec
  /\ WF_vars(\E p \in Procs : LockResume(p))
  /\ WF_vars(\E p \in Procs : IssueEval(p))
  /\ WF_vars(\E p \in Procs, r \in EvalOutcomes : EvalSettle(p, r))

TypeOK ==
  /\ pc \in {"start", "await_promote", "await_reap", "await_reserve", "sleep",
             "await_timeout", "await_handler", "await_ack", "await_race",
             "returned", "rejected"}
  /\ cur \in 0..MaxJobs
  /\ exitCode \in {0, ExitStatus}

\* ---------------------------------------------------------------- claims

\* C1: if the heartbeater's lost flag is set when the handler returns or
\* throws, the runloop issues neither ack_success nor ack_fail for the job
\* (lostAtAck is hb.flags.lost as read when the handler settled).
C1_NoAckWhenLost ==
  job.lostAtAck => (job.ack = "none" /\ pc /= "await_ack")

C1_Witness ==
  /\ cur > 0
  /\ job.handler = "threw" /\ job.lostAtAck /\ hb[cur].lost
  /\ pc = "await_race"

\* C2: with drain=true, once a stop request (one interrupt, or a terminate
\* signal) has arrived while the handler was running, the loop only waits
\* for the handler, for its ack and for the finally step and then returns:
\* it issues no other store call, and when it has returned the handler has
\* settled and the ack matching its outcome was issued unless the lease was
\* flagged lost.
C2_DrainFinishesJob ==
  (cfg.drain /\ stopInHandler) =>
     /\ pc \in {"await_handler", "await_ack", "await_race", "returned"}
     /\ pc = "returned" =>
          /\ job.handler \in {"returned", "threw"}
          /\ job.lostAtAck => job.ack = "none"
          /\ (~job.lostAtAck /\ job.handler = "returned") => job.ack = "success"
          /\ (~job.lostAtAck /\ job.handler = "threw") => job.ack = "fail"

C2_Witness ==
  /\ cfg.drain /\ stopInHandler /\ interrupts = 1 /\ ~exited
  /\ pc = "returned" /\ job.handler = "threw" /\ job.ack = "fail"

\* C3: consume never ends while the handler it invoked is still running,
\* for either value of drain; a handler is cut short only by the hard exit
\* on a second interrupt with drain=true.
C3_HandlerNotAbandoned ==
  /\ Ended => job.handler /= "running"
  /\ (exited /\ job.handler = "running") => (cfg.drain /\ interrupts >= 2)

C3_Witness ==
  /\ ~cfg.drain /\ stopInHandler
  /\ pc = "returned" /\ job.handler = "returned"

C5_FastExit ==
  [][ /\ (pc = "await_reserve" /\ pc' /= "await_reserve"
            /\ ~cfg.drain /\ ctrl.stop /\ res' \in {"JOB", "JOB_NO_TOKEN"})
         => /\ pc' = (IF res' = "JOB" THEN "returned" ELSE "sleep")
            /\ cur' = cur /\ job' = job /\ hb' = hb
      /\ (pc = "sleep" /\ pc' /= "sleep" /\ ctrl.stop)
         => (pc' = "returned" /\ cur' = cur /\ job' = job /\ hb' = hb)
    ]_vars

C5_Witness ==
  /\ ~cfg.drain /\ ctrl.stop
  /\ pc = "returned" /\ res = "JOB" /\ cur = 0 /\ job.handler = "none"

\* C6: the process is hard-exited, with status 130, exactly when drain=true
\* and a second interrupt has been received; the first interrupt only sets
\* stop, a terminate signal is not counted as an interrupt, and with
\* drain=false no number of interrupts exits.
C6_HardExit ==
  /\ exited <=> (cfg.drain /\ interrupts >= 2)
  /\ exited => exitCode = ExitStatus
  /\ (interrupts >= 1 /\ ~exited) => ctrl.stop
  /\ ctrl.sigint_count = interrupts

C6_Witness ==
  /\ exitCode = ExitStatus /\ interrupts = 2 /\ ctrl.stop

\* C7: a heartbeat call (the immediate one or a tick) answered
\* ["ERR","NOT_ACTIVE"] or ["ERR","TOKEN_MISMATCH"] sets lost; lost never
\* goes back to false; and once lost is set no further heartbeat is issued.
C7_LeaseLoss ==
  [][ /\ "lease_lost" \in seen' => beater'.lost
      /\ beater.lost => (beater'.lost /\ issued' = issued /\ ~beater'.timer)
    ]_vars

C7_Witness ==
  /\ "lease_lost" \in seen /\ beater.lost /\ issued >= 2

\* C8: heartbeat failures whose message names neither NOT_ACTIVE nor
\* TOKEN_MISMATCH leave lost false and do not stop the heartbeater: lost is
\* set only after a lease-loss message, and unless lost is set or stop() was
\* called the interval is live once the immediate heartbeat has settled,
\* also when that heartbeat failed.
C8_OtherErrorsSwallowed ==
  /\ beater.lost => (seen \cap {"lease_lost", "lost_text"}) /= {}
  /\ (beater.imm = "done" /\ ~beater.lost /\ stops = 0)
       => (beater.timer /\ ~beater.stopped)

C8_Witness ==
  /\ seen = {"other_error"} /\ stops = 0
  /\ issued >= 2 /\ beater.timer /\ ~beater.lost

\* C9: stop() is idempotent, and after stop() has been called no heartbeat
\* call is issued any more, also when it is called while the immediate
\* heartbeat is in flight and the interval does not exist yet.
C9_StopIsFinal ==
  [][ /\ stops > 0 => issued' = issued
      /\ (stops > 0 /\ stops' = stops + 1) => beater' = beater
    ]_vars

C9_Witness ==
  /\ stops = 2 /\ beater.imm = "inflight" /\ ~beater.timer /\ issued = 1

\* C10: when the runloop leaves the wait of its finally block (to start the
\* next iteration or to return), either no heartbeat of the job is still in
\* flight or the 100 ms have passed.
C10_WaitsForHeartbeat ==
  [][ (pc = "await_race" /\ pc' /= "await_race")
        => (HbInFlight(hb[cur]) = 0 \/ raceTimer = "fired") ]_vars

\* C11: for every job whose handler is run and whose lease is not flagged
\* lost: the runloop starts the heartbeater before it calls the handler and
\* stops it before it issues the ack; a handler that returned is followed
\* by ack_success, one that threw by ack_fail whose error text is
\* "<name>: <message>" of the thrown error; both calls carry the job_id and
\* the lease_token of the job's reservation.
C11_AckProtocol ==
  /\ job.handler /= "none" =>
        (Len(job.log) >= 2 /\ job.log[1] = "startHeartbeater"
                           /\ job.log[2] = "handler")
  /\ (job.handler \in {"returned", "threw"} /\ ~job.lostAtAck) =>
        /\ job.log = <<"startHeartbeater", "handler", "hb.stop", job.call.op>>
        /\ job.handler = "returned" =>
              (job.call.op = "ack_success" /\ job.call.error = <<>>)
        /\ job.handler = "threw" =>
              /\ job.call.op = "ack_fail"
              /\ (job.err.name /= "undefined" /\ job.err.message /= "undefined")
                    => job.call.error = <<job.err.name, ": ", job.err.message>>
        /\ pc \in {"await_ack", "await_race"} =>
              /\ hb[cur].stopped
              /\ job.call.job_id = rsv.job_id
              /\ job.call.lease_token = rsv.lease_token
              /\ rsv.lease_token /= ""

C11_Witness ==
  /\ pc = "await_ack" /\ cur = 2
  /\ job.handler = "threw" /\ job.err.name = "TypeError"
  /\ job.call = [op |-> "ack_fail", job_id |-> "k", lease_token |-> "tok2",
                 error |-> <<"TypeError", ": ", "bad">>]

\* C12: every script call first attempts EVALSHA; a recovery EVAL is issued
\* if and only if EVALSHA failed with an error whose message contains
\* NOSCRIPT in any letter case; any other EVALSHA error goes to the caller
\* with no EVAL and without the mutex being touched.
C12_FallbackOnlyOnNoScript ==
  \A p \in Procs :
    LET c == calls[p]
        noscript == \E i \in DOMAIN c.shaErr.message :
                       c.shaErr.message[i] \in {"NOSCRIPT", "noscript", "NoScript"}
    IN /\ c.evals <= 1
       /\ (c.evals > 0 \/ c.touched) => noscript
       /\ (c.pc = "done" /\ noscript) => c.evals = 1
       /\ c.pc \in {"idle", "evalsha"} => (c.evals = 0 /\ ~c.touched)
       /\ c.out = "sha_error" =>
             (c.pc = "done" /\ c.evals = 0 /\ ~c.touched
                /\ c.shaErr /= NoError /\ ~noscript)

C12_Witness ==
  \E p, q \in Procs :
    /\ calls[p].pc = "done" /\ calls[p].evals = 1
    /\ calls[p].shaErr.message = <<"ERR", "noscript">>
    /\ calls[q].out = "sha_error"
    /\ calls[q].shaErr.message = <<"ECONNRESET">>

\* C13: at any time at most one caller holds the script mutex, so at most
\* one recovery EVAL is in flight in the process, whatever the OmniqOps
\* instances of the callers, also between a release and the resumption of
\* the waiter it woke.
C13_OneRecoveryAtATime ==
  /\ Cardinality({p \in Procs : calls[p].pc = "eval"}) <= 1
  /\ Cardinality({p \in Procs :
                    calls[p].pc \in {"acquired", "woken", "eval"}}) <= 1

C13_Witness ==
  \E p, q \in Procs :
    /\ InstOf(p) /= InstOf(q)
    /\ calls[p].pc = "woken"
    /\ calls[q].pc = "waiting"

\* C14: a call whose EVALSHA succeeds never acquires or waits for the
\* mutex: only a call whose EVALSHA failed touches it, and the step in which
\* an EVALSHA succeeds ends the call and leaves the mutex as it is, also
\* while another caller holds it.
C14_NormalPathUnserialized ==
  [][ \A p \in Procs :
        /\ calls'[p].touched => calls'[p].shaErr /= NoError
        /\ (calls[p].pc = "evalsha" /\ calls'[p].shaErr = NoError
              /\ calls'[p].pc /= "evalsha")
             => (calls'[p].pc = "done" /\ calls'[p].out = "ok"
                 /\ mutex' = mutex /\ arrivals' = arrivals) ]_vars

C14_Witness ==
  \E p, q \in Procs :
    /\ calls[p].pc = "done" /\ calls[p].out = "ok" /\ calls[p].evals = 0
    /\ calls[p].underLock
    /\ calls[q].pc = "eval"

\* C15: once the script cache has been flushed, a call whose EVAL reaches
\* the store succeeds with exactly one EVAL and leaves its script in the
\* cache; a call whose EVALSHA is answered while its script is in the cache
\* performs no EVAL.
C15_NoScriptRecovery ==
  [][ \A p \in Procs :
        /\ (calls[p].pc = "eval" /\ calls'[p].out = "ok")
             => (calls'[p].evals = 1 /\ ScriptOf(p) \in cache')
        /\ (calls[p].pc = "evalsha" /\ calls'[p].pc /= "evalsha"
              /\ ScriptOf(p) \in cache)
             => (calls'[p].pc = "done" /\ calls'[p].evals = 0) ]_vars

C15_Witness ==
  \E p \in Procs :
    /\ ScriptOf(p) = "heartbeat"
    /\ calls[p].pc = "done" /\ calls[p].out = "ok" /\ calls[p].evals = 1
    /\ cache = {"heartbeat"}

\* C16: the mutex is never left locked without a holder (the release runs
\* also when the EVAL throws); a release wakes the waiter that arrived
\* first; and every caller waiting for the mutex gets to issue its EVAL,
\* provided every EVAL settles.
C16_MutexReleasedAndFair ==
  /\ [](\A k \in MutexKeys :
          mutex[k].locked =>
            \E p \in Procs : calls[p].pc \in {"acquired", "woken", "eval"})
  /\ [][ \A p \in Procs :
            (calls[p].pc = "waiting" /\ calls'[p].pc = "woken")
              => p = Head(arrivals) ]_vars
  /\ \A p \in Procs : (calls[p].pc = "waiting") ~> (calls[p].pc = "eval")

C16_Witness ==
  \E p, q, r \in Procs :
    /\ calls[p].pc = "done" /\ calls[p].out = "eval_error"
    /\ calls[q].pc = "woken"
    /\ calls[r].pc = "waiting"
    /\ mutex[0].locked

\* C17: once a reserve has returned a job and its lease token, a
\* heartbeat, ack_success or ack_fail of that job under any other token
\* throws an error whose message names TOKEN_MISMATCH, and the job keeps
\* its lane, its lease deadline and its attempt counter.
C17_LeaseGating ==
  [][ /\ (last'.op = "reserve" /\ last'.res = "JOB") =>
           /\ jobs'[last'.job].lane = "active"
           /\ jobs'[last'.job].token = last'.tok
      /\ (/\ last'.op \in {"heartbeat", "ack_success", "ack_fail"}
          /\ jobs[last'.job].lane = "active"
          /\ last'.tok /= jobs[last'.job].token) =>
           /\ last'.res = "thrown"
           /\ Includes(last'.msg, "TOKEN_MISMATCH")
           /\ jobs'[last'.job].lane = jobs[last'.job].lane
           /\ jobs'[last'.job].lock = jobs[last'.job].lock
           /\ jobs'[last'.job].attempt = jobs[last'.job].attempt
           /\ jobs'[last'.job].token = jobs[last'.job].token ]_vars

\* an ack_fail under the token of the job's earlier lease is turned away
C17_Witness ==
  /\ last.op = "ack_fail"
  /\ last.res = "thrown"
  /\ Includes(last.msg, "TOKEN_MISMATCH")
  /\ last.tok = TokenOf(1)
  /\ jobs[last.job].lane = "active"
  /\ jobs[last.job].token = TokenOf(2)

\* C18: a reserve while the queue is paused returns PAUSED, leases nothing
\* and starts no handler; pause and resume leave every job in its lane and
\* every running handler running; a heartbeat under the right token of a
\* leased job succeeds while the queue is paused.
C18_PauseSemantics ==
  [][ /\ (last'.op = "reserve" /\ paused) =>
           /\ last'.res = "PAUSED"
           /\ jobs' = jobs /\ leases' = leases /\ running' = running
      /\ last'.op \in {"pause", "resume"} =>
           /\ \A j \in QJobIds : jobs'[j].lane = jobs[j].lane
           /\ running' = running
      /\ (/\ last'.op = "heartbeat" /\ paused
          /\ jobs[last'.job].lane = "active"
          /\ last'.tok = jobs[last'.job].token) =>
           /\ last'.res = "ok"
           /\ jobs'[last'.job].lane = "active"
           /\ jobs'[last'.job].token = last'.tok
           /\ running' = running ]_vars

\* a reserve met a paused queue with a job ready in it
C18_Witness ==
  /\ paused
  /\ last.op = "reserve" /\ last.res = "PAUSED"
  /\ \E j \in QJobIds : jobs[j].lane = "ready" /\ jobs[j].attempt = 1
  /\ running /= {}

\* C19: an ack_fail of a leased job under its token returns RETRY and puts
\* the job in the delayed lane when the attempt of the lease plus one is
\* below max_attempts, and returns FAILED and puts the job in the failed
\* lane otherwise; the attempt of a lease, as reserve reports it, is the
\* number of leases the job had before (0, then 1 after one retry).
C19_AckFailDichotomy ==
  [][ /\ (last'.op = "reserve" /\ last'.res = "JOB") =>
           /\ last'.num = jobs[last'.job].attempt
           /\ jobs'[last'.job].attempt = last'.num + 1
      /\ (/\ last'.op = "ack_fail"
          /\ jobs[last'.job].lane = "active"
          /\ last'.tok = jobs[last'.job].token) =>
           LET attempt == jobs[last'.job].attempt - 1
           IN IF attempt + 1 < jobs[last'.job].max
                THEN /\ last'.res = "RETRY"
                     /\ jobs'[last'.job].lane = "delayed"
                ELSE /\ last'.res = "FAILED"
                     /\ jobs'[last'.job].lane = "failed" ]_vars

\* with max_attempts = 2, the reserve after the first failure reports
\* attempt 1
C19_Witness ==
  /\ last.op = "reserve" /\ last.res = "JOB"
  /\ last.num = 1
  /\ jobs[last.job].max = 2
  /\ jobs[last.job].lane = "active"

\* C20: after childs_init(k, N), the child_ack calls of distinct child ids
\* that the store runs return N-1, N-2, ..., 0 in the order the store runs
\* them, whatever the interleaving of the callers; 0 is returned at most
\* once, and every child_ack after it returns -1.
C20_ChildCounter ==
  LET ran == SelectSeq(results, LAMBDA x : x.ran)
      zeros == {i \in DOMAIN results : results[i].val = 0}
  IN /\ Cardinality(zeros) <= 1
     /\ \A i \in DOMAIN results : ~results[i].ran => results[i].val = -1
     /\ cc.expected > 0 =>
          \A i \in DOMAIN ran :
             ran[i].val = IF i <= cc.expected THEN cc.expected - i ELSE -1
     /\ \A i \in zeros : \A j \in DOMAIN results :
            j > i => results[j].val = -1

C20_Witness ==
  LET ran == SelectSeq(results, LAMBDA x : x.ran)
  IN /\ cc.expected = 3
     /\ Len(ran) = 4
     /\ ran[3].val = 0 /\ ran[4].val = -1 /\ ran[1].val = 2
     /\ ran[1].cid = 3

\* C21: a publish whose payload is null, a string, a number or a boolean
\* throws a TypeError, puts no command on the wire and leaves the queue as
\* it was; a publish that puts a command on the wire has an object or an
\* array for payload.
C21_PublishValidates ==
  [][ api'.op = "publish" =>
        /\ api'.arg \in {"null", "string", "number", "boolean"} =>
              /\ api'.thrown = "TypeError"
              /\ api'.sent = <<>>
              /\ jobs' = jobs
        /\ (api'.sent /= <<>> \/ jobs' /= jobs) =>
              api'.arg \in {"object", "array"}
        /\ api'.thrown = "TypeError" => api'.arg \notin {"object", "array"} ]_vars

\* a publish of null was turned away while the queue held a job
C21_Witness ==
  /\ api.op = "publish" /\ api.arg = "null"
  /\ api.thrown = "TypeError" /\ api.sent = <<>>
  /\ \E j \in QJobIds : jobs[j].lane = "ready"

\* C22: retry_failed_batch and remove_jobs_batch with more than 100 job
\* ids throw before any command is put on the wire and no job changes
\* lane; with 100 ids or fewer they make one script call: one EVALSHA,
\* followed by at most one EVAL of the same script.
C22_BatchCap ==
  [][ api'.op \in {"retry_failed_batch", "remove_jobs_batch"} =>
        IF api'.n > 100
          THEN /\ api'.thrown = "Error"
               /\ Includes(api'.msg, "max")
               /\ api'.sent = <<>>
               /\ \A j \in QJobIds : jobs'[j].lane = jobs[j].lane
          ELSE /\ Len(api'.sent) \in {1, 2}
               /\ api'.sent[1].cmd = "EVALSHA"
               /\ api'.sent[1].script = api'.op
               /\ Len(api'.sent) = 2 =>
                     /\ api'.sent[2].cmd = "EVAL"
                     /\ api'.sent[2].script = api'.op ]_vars

\* a batch of 101 ids naming a failed job was turned away
C22_Witness ==
  /\ api.op = "retry_failed_batch" /\ api.n = 101
  /\ api.thrown = "Error" /\ api.sent = <<>>
  /\ \E j \in QJobIds : jobs[j].lane = "failed"

SameNumber(v, n) == n.hi < 32768 /\ v = n.hi * 65536 + n.lo

\* the 32-bit integer v is at least the number n
AtLeast(v, n) == n.hi < 32768 /\ v >= n.hi * 65536 + n.lo

\* C24 as stated: for every key and child id, every reply and every
\* failure of the store, child_ack throws nothing and returns a number,
\* which is other than -1 only for a reply ["OK", remaining] with a finite
\* remaining.
C24_ChildAckNeverThrows ==
  api.op = "child_ack" =>
    /\ api.thrown = "none" /\ api.ret.kind = "number"
    /\ api.ret.num /= -1 =>
         /\ api.replied /\ api.raw.isArray /\ Len(api.raw.elems) >= 2
         /\ api.raw.elems[1] = "OK" /\ api.raw.elems[2] = "#"

\* C24: child_ack throws exactly when the counter key is invalid (empty
\* once trimmed, with a brace, longer than 128) or the child id is empty
\* once trimmed, and then sends nothing; otherwise, whatever the store
\* replies and however the call fails, it throws nothing and returns a
\* number, which is other than -1 only for a reply ["OK", remaining] with
\* a finite remaining, and is then that remaining.
C24_ChildAckThrowsOnlyInvalid ==
  api.op = "child_ack" =>
    LET k == Trim(api.key)
        valid == /\ k /= <<>> /\ ~Has(k, "{") /\ ~Has(k, "}")
                 /\ Len(k) <= 128
                 /\ Trim(api.cid) /= <<>>
    IN IF ~valid
         THEN /\ api.thrown = "Error" /\ api.sent = <<>>
              /\ api.ret.kind = "none"
         ELSE /\ api.thrown = "none" /\ api.ret.kind = "number"
              /\ api.sent /= <<>>
              /\ \A i \in DOMAIN api.sent :
                    api.sent[i].keys = <<<<"{cc:">> \o k \o <<"}:meta">>>>
              /\ api.ret.num /= -1 =>
                   /\ api.replied /\ api.raw.isArray
                   /\ Len(api.raw.elems) >= 2
                   /\ api.raw.elems[1] = "OK" /\ api.raw.elems[2] = "#"
                   /\ SameNumber(api.ret.num, api.raw.num)

\* a failure of the transport was swallowed: both commands went out, no
\* reply came, -1 was returned
C24_Witness ==
  /\ api.op = "child_ack" /\ api.thrown = "none" /\ ~api.replied
  /\ Len(api.sent) = 2 /\ api.ret.kind = "number" /\ api.ret.num = -1

\* C25: through ctx.exec a handler reaches publish, pause, resume,
\* is_paused, childs_init and child_ack, and no operation that takes a
\* lease token: whatever members it follows from its context, it calls
\* neither heartbeat nor ack_success nor ack_fail.
C25_ExecHidesLeaseOps ==
  \A i \in DOMAIN handler.called : handler.called[i].name \notin LeaseOps

\* C26: every key the client composes for a queue q starts with
\* queue_base(q): a script call declares exactly one key, the anchor
\* queue_base(q):meta; is_paused reads queue_base(q):paused and
\* job_timeout_ms reads queue_base(q):job:<id>.  queue_base(q) is {q} when
\* q has no brace, and queue_base(queue_base(q)) = queue_base(q).
C26_HashTag ==
  (api.op \notin {"none", "child_ack"}) =>
    LET q == api.queue
        base == queueBase(q)
    IN /\ \A i \in DOMAIN api.sent :
            LET c == api.sent[i]
            IN /\ Len(c.keys) = 1
               /\ StartsWith(c.keys[1], base)
               /\ c.cmd \in {"EVALSHA", "EVAL"} =>
                    c.numkeys = 1 /\ c.keys[1] = base \o <<":meta">>
               /\ c.cmd = "EXISTS" => c.keys[1] = base \o <<":paused">>
               /\ c.cmd = "HGET" => c.keys[1] = base \o <<":job:", api.arg>>
       /\ (~Has(q, "{") /\ ~Has(q, "}")) => base = <<"{">> \o q \o <<"}">>
       /\ StartsWith(base, <<"{">>) \/ base = q
       /\ queueBase(base) = base

\* is_paused of a queue whose name is its own hash tag reads the flag
\* under that very name
C26_Witness ==
  /\ api.op = "is_paused" /\ api.queue = <<"{", "q", "}">>
  /\ Len(api.sent) = 1
  /\ api.sent[1].keys = << <<"{", "q", "}", ":paused">> >>

\* C27: derive_heartbeat_interval_s(timeout_ms) is timeout_ms / 2000
\* seconds kept within [1, 10] seconds (2.0 s for 4000, 10.0 s for 30000,
\* 1.0 s for 1000), and paused_backoff_s(poll) is the greater of 0.25 s and
\* ten times poll.  (Half milliseconds and milliseconds, as above.)
C27_Intervals ==
  /\ api.op = "derive_heartbeat_interval_s" =>
       /\ api.ret.num = (IF api.n < 2000 THEN 2000
                         ELSE IF api.n > 20000 THEN 20000 ELSE api.n)
       /\ api.n = 4000 => api.ret.num = 4000
       /\ api.n = 30000 => api.ret.num = 20000
       /\ api.n = 1000 => api.ret.num = 2000
  /\ api.op = "paused_backoff_s" =>
       /\ api.ret.num >= 250 /\ api.ret.num >= api.n * 10
       /\ api.ret.num \in {250, api.n * 10}

\* a timeout of 30000 ms gave an interval of 10.0 s
C27_Witness ==
  /\ api.op = "derive_heartbeat_interval_s" /\ api.n = 30000
  /\ api.ret.num = 20000

\* C28: when the store answers ack_fail with ["RETRY", due_ms], the client
\* returns ["RETRY", that same due_ms]; with a backoff of 1000 ms and the
\* failure acknowledged at time now, the returned due_ms is at least
\* now + 1000.
C28_RetryDuePassedThrough ==
  (/\ api.op = "ack_fail" /\ api.replied
   /\ api.raw.isArray /\ Len(api.raw.elems) >= 2
   /\ api.raw.elems[1] = "RETRY")
    => /\ api.thrown = "none" /\ api.ret.kind = "retry"
       /\ SameNumber(api.ret.num, api.raw.num)
       /\ AtLeast(api.ret.num, NumAdd(api.at, BackoffMs))

\* C29: the lock_until_ms of a job returned by reserve and the number
\* returned by heartbeat are the expiry the store replied, whatever its
\* size, and the counts returned by promote_delayed and reap_expired are
\* the replied counts.
C29_DeadlinePassedThrough ==
  (api.replied /\ api.thrown = "none" /\ Len(api.raw.elems) >= 2) =>
    /\ (api.op = "reserve" /\ api.ret.kind = "job")
          => SameNumber(api.ret.job.lock_until_ms, api.raw.num)
    /\ (api.op = "heartbeat" /\ api.raw.elems[2] = "#")
          => SameNumber(api.ret.num, api.raw.num)
    /\ (api.op \in {"promote_delayed", "reap_expired"}
          /\ api.raw.elems[2] = "#")
          => SameNumber(api.ret.num, api.raw.num)

\* C30: the SIGINT and SIGTERM listeners of consume are registered only
\* with stop_on_ctrl_c = true, stay registered as long as the call runs,
\* and are off once the call has ended, by a return or by an exception
\* that escaped the loop; with stop_on_ctrl_c = false none is registered.
C30_ListenersScoped ==
  /\ installed => cfg.stop_on_ctrl_c
  /\ (cfg.stop_on_ctrl_c /\ pc /= "start" /\ ~Ended) => installed
  /\ Ended => ~installed

\* the call ended by the exception of a failed job_timeout_ms lookup, after
\* a terminate signal had reached its listener
C30_Witness ==
  /\ pc = "rejected"
  /\ cfg.stop_on_ctrl_c /\ ctrl.stop
  /\ ~installed

\* the place of a store call in an iteration
SweepRank(op) ==
  IF op = "promote_delayed" THEN 1 ELSE IF op = "reap_expired" THEN 2 ELSE 3

\* the store call the loop is suspended at, if it is one it records
SweepAwaited ==
  IF pc = "await_promote" THEN "promote_delayed"
  ELSE IF pc = "await_reap" THEN "reap_expired"
  ELSE IF pc = "await_reserve" THEN "reserve"
  ELSE IF pc = "await_ack" THEN job.call.op ELSE "none"

\* C31: in an iteration the store calls come in the order promote_delayed,
\* reap_expired, reserve, each at most once; promote_delayed and
\* reap_expired are called only when their interval has elapsed since
\* their last attempt, and both in the first iteration; when either
\* settles, with an error or not, its attempt is recorded and the loop
\* goes on to the next call of the iteration.
C31_SweepOrder ==
  /\ [](/\ \A i, k \in DOMAIN iter.calls :
             i < k => SweepRank(iter.calls[i].op) < SweepRank(iter.calls[k].op)
        /\ \A i \in DOMAIN iter.calls :
             (iter.calls[i].out = "pending")
               <=> (i = Len(iter.calls) /\ SweepAwaited = iter.calls[i].op)
        /\ SweepAwaited /= "none" => iter.calls /= <<>>)
  /\ [][/\ (pc' = "await_promote" /\ pc /= "await_promote") => promoteElapsed
        /\ (pc' = "await_reap" /\ pc /= "await_reap") => reapElapsed
        /\ (pc = "start" /\ pc' /= "start") =>
             (pc' = "await_promote" /\ reapDue') \/ pc' = "returned"
        /\ (pc = "await_promote" /\ pc' /= pc) =>
             /\ ~promoteElapsed'
             /\ pc' = (IF reapDue THEN "await_reap" ELSE "await_reserve")
             /\ Len(iter'.calls) = Len(iter.calls) + 1
        /\ (pc = "await_reap" /\ pc' /= pc) =>
             /\ ~reapElapsed' /\ pc' = "await_reserve"
             /\ Len(iter'.calls) = Len(iter.calls) + 1]_vars

\* both promote_delayed and reap_expired failed, and reserve was called
C31_Witness ==
  /\ pc = "await_reserve"
  /\ iter.calls = << [op |-> "promote_delayed", out |-> "error"],
                     [op |-> "reap_expired", out |-> "error"],
                     [op |-> "reserve", out |-> "pending"] >>

\* the loop has gone on to the job it reserved
JobTaken == pc' \in {"await_timeout", "await_handler"} /\ cur' = cur + 1

C33_HandlerOnlyForLeasedJob ==
  [][ /\ (pc = "await_reserve" /\ pc' /= pc
            /\ res' \in {"null", "PAUSED", "JOB_NO_TOKEN"})
         => /\ pc' = "sleep"
            /\ iter'.nap = (IF res' = "null" THEN PollMs
                            ELSE IF res' = "PAUSED" THEN 10 * PollMs
                            ELSE ErrorSleepMs)
            /\ cur' = cur /\ job' = job /\ hb' = hb /\ rsv' = rsv
      /\ (job'.handler = "running" /\ job.handler /= "running")
         => /\ res' = "JOB" /\ rsv'.lease_token /= ""
            /\ pc \in {"await_reserve", "await_timeout"}
      /\ (pc = "await_reserve" /\ pc' /= pc /\ res' = "JOB" /\ cfg.drain)
         => JobTaken
      /\ (pc = "await_timeout" /\ pc' /= pc /\ cfg.drain)
         => /\ pc' = "await_handler"
            /\ job'.log = <<"startHeartbeater", "handler">>
    ]_vars

\* C35: consume ends only on a requested stop and never rejects; no failure
\* of a store call of the loop, of the handler or of the logger leaves the
\* iteration, and with drain=true every job whose reserve succeeded gets
\* its heartbeater and its handler.
C35_NeverRejects ==
  /\ pc /= "rejected"
  /\ pc = "returned" => ctrl.stop

\* the ack calls among the calls the loop made for the job in hand
AckCalls == SelectSeq(job.log, LAMBDA c : c \in {"ack_success", "ack_fail"})

\* C36: for a reservation the loop issues at most one ack call, ack_success
\* or ack_fail; it issues it when the handler settles, and when the ack
\* settles, with an error or not, the loop goes to the end of the iteration
\* with no further call for the job.
C36_OneAckPerReservation ==
  /\ [](Len(AckCalls) <= 1)
  /\ [][ /\ (pc = "await_ack" /\ pc' /= pc)
            => /\ pc' = "await_race" /\ job' = job
               /\ Len(iter'.calls) = 1
               /\ iter'.calls[1].op = job.call.op
               /\ iter'.calls[1].out /= "pending"
         /\ (job'.log /= job.log)
            => pc \in {"await_reserve", "await_timeout", "await_handler"}
       ]_vars

\* an ack_success that failed, with the loop past it and no other ack made
C36_Witness ==
  /\ pc = "await_race" /\ job.ack = "success"
  /\ iter.calls = << [op |-> "ack_success", out |-> "error"] >>
  /\ AckCalls = <<"ack_success">>

\* the heartbeaters that were started and not stopped
LiveHb == {k \in JobIds : hb[k].imm /= "none" /\ ~hb[k].stopped}

\* the loop holds a job: from its reserve to the end of its ack
JobInHand == pc \in {"await_timeout", "await_handler", "await_ack"}

\* C39: at most one job is in hand: from a successful reserve to the end
\* of the job's ack the loop makes no reserve, promote_delayed or
\* reap_expired call; the handler runs only while the loop awaits it; a
\* heartbeater is live only for the job in hand, and none is live when the
\* loop is at the next reserve.
C39_OneJobInHand ==
  /\ [](/\ Cardinality(LiveHb) <= 1
        /\ LiveHb \subseteq {cur}
        /\ LiveHb /= {} => pc = "await_handler"
        /\ job.handler = "running" <=> pc = "await_handler"
        /\ (JobInHand \/ pc = "await_race")
             => \A i \in DOMAIN iter.calls :
                  iter.calls[i].op \in {"ack_success", "ack_fail"})
  /\ [][ /\ (JobInHand /\ pc' /= pc)
            => pc' \in {"await_handler", "await_ack", "await_race", "rejected"}
         /\ (JobInHand \/ JobInHand') => cur' \in {cur, cur + 1}
         /\ (JobInHand /\ JobInHand') => (cur' = cur /\ rsv' = rsv)
       ]_vars

\* the second job is in the handler, the heartbeater of the first stopped
C39_Witness ==
  /\ pc = "await_handler" /\ cur = 2 /\ LiveHb = {2}
  /\ job.handler = "running"

\* the loop leaves the await of the handler
HandlerSettles == pc = "await_handler" /\ pc' /= pc

\* C34 as claimed: no heartbeat of the job is in flight when the ack is
\* decided, and no ack is issued for a job one of whose heartbeats
\* reported lease loss.
C34_NoAckWhileHeartbeatOutstanding ==
  /\ [][HandlerSettles => HbInFlight(hb'[cur]) = 0]_vars
  /\ [](job.ack /= "none" /\ pc \in {"await_ack", "await_race"}
          => ~hb[cur].lost)

\* C34: the ack is decided on the lost flag as it is when the handler
\* settles: an ack is issued exactly when the flag is not set then, so
\* every lease loss reported before that moment prevents the ack; stop()
\* leaves the heartbeat calls in flight as they are, and a lease-loss
\* reply to one of them sets the flag after the decision without changing
\* the ack.
C34_AckDecidedAtSettle ==
  /\ [][ /\ HandlerSettles
             => /\ (pc' = "await_ack") = ~hb[cur].lost
                /\ (job'.ack = "none") = hb[cur].lost
                /\ job'.lostAtAck = hb[cur].lost
                /\ hb'[cur].stopped /\ hb'[cur].lost = hb[cur].lost
                /\ HbInFlight(hb'[cur]) = HbInFlight(hb[cur])
         /\ (pc \in {"await_ack", "await_race"} /\ cur' = cur) => job' = job
         /\ (cur' = cur /\ cur > 0 /\ hb'[cur].lost /\ ~hb[cur].lost)
             => HbInFlight(hb'[cur]) = HbInFlight(hb[cur]) - 1
       ]_vars

\* an ack_success is in flight and a heartbeat of the job, still
\* outstanding when the handler returned, has since reported lease loss
C34_Witness ==
  /\ pc = "await_ack" /\ job.ack = "success" /\ ~job.lostAtAck
  /\ hb[cur].lost /\ hb[cur].stopped

\* C38: what Exec.publish sends to the enqueue script for an argument
\* record is what OmniqOps.publish sends for the same record, whichever
\* optional fields the record omits.
C38_ExecPublishPassThrough ==
  handler.sent.via = "Exec"
    => handler.sent.argv = OpsPublishArgv(handler.sent.args)

\* C37 as claimed: for every positive timeout_ms the derived heartbeat
\* period is strictly shorter than timeout_ms.  (The interval is in half
\* milliseconds, so timeout_ms is 2 * api.n of them.)
C37_PeriodShorterThanLease ==
  (api.op = "derive_heartbeat_interval_s" /\ api.n > 0)
    => api.ret.num < 2 * api.n

\* C37: the derived heartbeat period is strictly shorter than timeout_ms
\* exactly when timeout_ms is above 1000; from 2000 on it is at most half
\* of timeout_ms; for a positive timeout_ms of 1000 or less it is 1.0 s,
\* which is the lease duration or more.
C37_PeriodBelowLease ==
  (api.op = "derive_heartbeat_interval_s" /\ api.n > 0)
    => /\ (api.ret.num < 2 * api.n) = (api.n > 1000)
       /\ api.n >= 2000 => api.ret.num <= api.n
       /\ api.n <= 1000 => api.ret.num = 2000

\* a lease of 1000 ms gave a period of 1.0 s, the whole lease
C37_Witness ==
  /\ api.op = "derive_heartbeat_interval_s" /\ api.n = 1000
  /\ api.ret.num = 2 * api.n

\* the store refused the EVALSHA of a call for want of the script, and so
\* did not run it
StoreRefused(err) ==
  err \in {ErrObj(<<"NOSCRIPT", "No", "matching", "script.">>),
           ErrObj(<<"ERR", "noscript">>)}

\* how many commands of call c the store may have run the script for: its
\* EVALSHA once settled, unless refused, and every EVAL it issued
MayHaveRun(c) ==
  (IF c.pc \in {"idle", "evalsha"} \/ StoreRefused(c.shaErr) THEN 0 ELSE 1)
    + c.evals

\* C40: a call makes the store run its script at most once: an EVAL is
\* issued only after an EVALSHA the store refused, at most one EVAL per
\* call, and a call that returned a reply ran its script exactly once;
\* when an EVAL settles, failed or not, its call is over; callers that all
\* met NOSCRIPT each issue their one EVAL while no other EVAL is in flight.
C40_ScriptRunsAtMostOnce ==
  /\ [](\A p \in Procs :
          /\ MayHaveRun(calls[p]) <= 1
          /\ calls[p].evals > 0 => StoreRefused(calls[p].shaErr)
          /\ calls[p].out = "ok" => MayHaveRun(calls[p]) = 1)
  /\ [][ \A p \in Procs :
           /\ (calls[p].pc = "eval" /\ calls'[p].pc /= "eval")
              => (calls'[p].pc = "done" /\ calls'[p].evals = 1)
           /\ (calls'[p].pc = "eval" /\ calls[p].pc /= "eval")
              => /\ calls[p].evals = 0 /\ calls[p].pc = "acquired"
                 /\ \A q \in Procs \ {p} : calls[q].pc /= "eval"
       ]_vars

\* three callers met NOSCRIPT; each has run its one EVAL, one of them in
\* vain, and all three calls are over
C40_Witness ==
  /\ \A p \in Procs : calls[p].pc = "done" /\ calls[p].evals = 1
  /\ \E p \in Procs : calls[p].out = "eval_error"
  /\ \E p \in Procs : calls[p].out = "ok"

====
